---- MODULE Spec2Model ----
(***************************************************************************)
(* The PostgreSQL backend of the encrypted key-value store                 *)
(* (src/src/postgres/mod.rs): the profiles / items / items_tags / config   *)
(* tables, the store's KeyCache, the connection pool, the sessions and the *)
(* operations of Backend and QueryBackend.                                 *)
(*                                                                         *)
(* Byte strings are sequences of numbers 0..255.  Text produced by SQL     *)
(* (the aggregated tags column) is a sequence of one-character strings.    *)
(* Time is counted in milliseconds.                                        *)
(***************************************************************************)
EXTENDS Naturals, Integers, Sequences, FiniteSets, Bags, TLC

VARIABLES
    profiles,     \* table profiles: rows [id, name, store_key]
    items,        \* table items: rows [id, profile_id, kind, category, name, value, expiry]
    items_tags,   \* table items_tags: rows [id, item_id, name, value, plaintext]
    config,       \* table config: [wrap_key |-> the wrap-key reference]
    key_cache,    \* PostgresStore.key_cache: the KeyCache instance the store points to
    caches,       \* every KeyCache instance alive: instance -> [wrap_key, profile_info]
    sessions,     \* the DbSession objects
    scan,         \* the Scan a caller of Backend::scan holds, with its DbSession
    checked_out,  \* connections of conn_pool currently checked out
    pool,         \* conn_pool: "Open", "Closing" (Backend::close waits for the
                  \* connections to come back) or "Closed"
    creating,     \* the create_profile calls between their INSERT and add_profile
    removing,     \* the remove_profile calls whose DELETE waits: a bag of names
    now,          \* the clock of the database
    serial,       \* the database sequences and the key generator
    res,          \* what the last operation was given and what it returned
    inserted      \* history: item id -> the (category, name, value, tags) it was
                  \* inserted from

vars == <<profiles, items, items_tags, config, key_cache, caches, sessions, scan,
          checked_out, pool, creating, removing, now, serial,
          res, inserted>>

(***************************************************************************)
(* Bounds of the model.                                                    *)
(***************************************************************************)
PoolSize == 2
MaxItemId == 2
MaxProfileId == 3
MaxTime == 2

\* Option<T>: None, or Some(x); Unwrap(Some(x)) = x
None == <<>>
Some(x) == <<x>>
Unwrap(o) == o[1]

Sessions == {1, 2}

Ok(v) == [ok |-> TRUE, val |-> v]
Err(kind) == [ok |-> FALSE, err |-> kind]

(***************************************************************************)
(* Sequences helpers.                                                      *)
(***************************************************************************)
Range(f) == {f[i] : i \in DOMAIN f}

RECURSIVE Concat(_)
Concat(ss) == IF ss = <<>> THEN <<>> ELSE Head(ss) \o Concat(Tail(ss))

RECURSIVE Join(_, _)
Join(ss, sep) ==
    IF ss = <<>> THEN <<>>
    ELSE IF Len(ss) = 1 THEN ss[1]
    ELSE ss[1] \o <<sep>> \o Join(Tail(ss), sep)

\* the pieces of s between occurrences of sep (one piece more than separators)
RECURSIVE SplitAcc(_, _, _)
SplitAcc(s, sep, cur) ==
    IF s = <<>> THEN <<cur>>
    ELSE IF Head(s) = sep THEN <<cur>> \o SplitAcc(Tail(s), sep, <<>>)
    ELSE SplitAcc(Tail(s), sep, Append(cur, Head(s)))

Split(s, sep) == SplitAcc(s, sep, <<>>)

\* the elements of a finite set of records, ordered by their id column
RECURSIVE OrderById(_)
OrderById(S) ==
    IF S = {} THEN <<>>
    ELSE LET m == CHOOSE r \in S : \A q \in S : r.id <= q.id
         IN  <<m>> \o OrderById(S \ {m})

(***************************************************************************)
(* ENCODE(bytes, 'hex') of the tags sub-select, and hex decoding.          *)
(***************************************************************************)
HexDigits == <<"0", "1", "2", "3", "4", "5", "6", "7",
               "8", "9", "a", "b", "c", "d", "e", "f">>

HexByte(b) == <<HexDigits[(b \div 16) + 1], HexDigits[(b % 16) + 1]>>

ENCODE_hex(bytes) == Concat([i \in DOMAIN bytes |-> HexByte(bytes[i])])

HexValue(c) == IF \E i \in DOMAIN HexDigits : HexDigits[i] = c
               THEN (CHOOSE i \in DOMAIN HexDigits : HexDigits[i] = c) - 1
               ELSE 16

hex_decode(s) ==
    IF Len(s) % 2 # 0 \/ \E i \in DOMAIN s : HexValue(s[i]) = 16
    THEN Err("Hex")
    ELSE Ok([i \in 1..(Len(s) \div 2) |->
                HexValue(s[2 * i - 1]) * 16 + HexValue(s[2 * i])])

(***************************************************************************)
(* StoreKey: the per-profile key bundle (keys::store::StoreKey).  A key is *)
(* a number; a ciphertext is the key, the sub-key used, for a randomized   *)
(* field the nonce, and then the plaintext bytes.  Decryption checks the   *)
(* header (the MAC) and fails with Encryption when it does not match.      *)
(***************************************************************************)
SubCategory == 1
SubName == 2
SubValue == 3
SubTagName == 4
SubTagValue == 5

EncryptDet(key, sub, bytes) == <<key, sub>> \o bytes

EncryptRand(key, sub, nonce, bytes) == <<key, sub, nonce>> \o bytes

DecryptDet(key, sub, ct) ==
    IF Len(ct) >= 2 /\ ct[1] = key /\ ct[2] = sub
    THEN Ok(SubSeq(ct, 3, Len(ct)))
    ELSE Err("Encryption")

DecryptRand(key, sub, ct) ==
    IF Len(ct) >= 3 /\ ct[1] = key /\ ct[2] = sub
    THEN Ok(SubSeq(ct, 4, Len(ct)))
    ELSE Err("Encryption")

encrypt_entry_category(key, category) == EncryptDet(key, SubCategory, category)
encrypt_entry_name(key, name) == EncryptDet(key, SubName, name)
encrypt_entry_value(key, nonce, value) == EncryptRand(key, SubValue, nonce, value)
decrypt_entry_name(key, ct) == DecryptDet(key, SubName, ct)
decrypt_entry_value(key, ct) == DecryptRand(key, SubValue, ct)

\* EntryTag: [plaintext, name, value]; Encrypted(name, value) has plaintext = FALSE
encrypt_entry_tag(key, tag) ==
    [name |-> EncryptDet(key, SubTagName, tag.name),
     value |-> IF tag.plaintext THEN tag.value
               ELSE EncryptDet(key, SubTagValue, tag.value),
     plaintext |-> tag.plaintext]

encrypt_entry_tags(key, tags) == [i \in DOMAIN tags |-> encrypt_entry_tag(key, tags[i])]

decrypt_entry_tag(key, enc) ==
    LET n == DecryptDet(key, SubTagName, enc.name)
        v == IF enc.plaintext THEN Ok(enc.value)
             ELSE DecryptDet(key, SubTagValue, enc.value)
    IN  IF n.ok /\ v.ok
        THEN Ok([plaintext |-> enc.plaintext, name |-> n.val, value |-> v.val])
        ELSE Err("Encryption")

decrypt_entry_tags(key, enc_tags) ==
    LET each == [i \in DOMAIN enc_tags |-> decrypt_entry_tag(key, enc_tags[i])]
    IN  IF \A i \in DOMAIN each : each[i].ok
        THEN Ok([i \in DOMAIN each |-> each[i].val])
        ELSE Err("Encryption")

(***************************************************************************)
(* The wrapped store key of profiles.store_key.  encode_store_key wraps    *)
(* the serialized key under a wrap key; StoreKey::to_string only           *)
(* serializes it.  KeyCache::load_key unwraps with the cache's wrap key.   *)
(***************************************************************************)
\* a blob is [wrap, key]: the wrap key it is sealed under (None: not sealed)
StoreKey_to_string(key) == [wrap |-> None, key |-> key]

encode_store_key(store_key, wrap_key) == [wrap |-> Some(wrap_key), key |-> store_key]

load_key(cache, enc_key) ==
    IF enc_key.wrap = Some(cache.wrap_key) THEN Ok(enc_key.key) ELSE Err("Encryption")

(***************************************************************************)
(* KeyCache: profile name -> (ProfileId, StoreKey), as a set of            *)
(* [name, pid, key] with at most one element per name.                     *)
(***************************************************************************)
KeyCache_new(wrap_key) == [wrap_key |-> wrap_key, profile_info |-> {}]

get_profile(cache, name) ==
    IF \E e \in cache.profile_info : e.name = name
    THEN Some(CHOOSE e \in cache.profile_info : e.name = name)
    ELSE None

add_profile(cache, name, pid, key) ==
    [cache EXCEPT !.profile_info =
        {e \in @ : e.name # name} \cup {[name |-> name, pid |-> pid, key |-> key]}]

(***************************************************************************)
(* The aggregated tags column of FETCH_QUERY and SCAN_QUERY:               *)
(*   ARRAY_TO_STRING(ARRAY_AGG(it.plaintext || ':' || ENCODE(it.name,'hex')*)
(*                   || ':' || ENCODE(it.value,'hex')), ',')               *)
(* NULL (None) when the item has no tag row; and decode_tags, its parser.  *)
(***************************************************************************)
TagText(t) ==
    <<IF t.plaintext THEN "1" ELSE "0">> \o <<":">> \o ENCODE_hex(t.name)
        \o <<":">> \o ENCODE_hex(t.value)

TagsColumn(view, item_id) ==
    LET rows == OrderById({t \in view.items_tags : t.item_id = item_id})
    IN  IF rows = <<>> THEN None
        ELSE Some(Join([i \in DOMAIN rows |-> TagText(rows[i])], ","))

decode_tag(text) ==
    LET f == Split(text, ":")
    IN  IF Len(f) # 3 \/ Len(f[1]) # 1 THEN Err("Unexpected")
        ELSE LET n == hex_decode(f[2])
                 v == hex_decode(f[3])
             IN  IF n.ok /\ v.ok
                 THEN Ok([name |-> n.val, value |-> v.val, plaintext |-> f[1] = <<"1">>])
                 ELSE Err("Unexpected")

decode_tags(text) ==
    IF text = <<>> THEN Ok(<<>>)
    ELSE LET parts == Split(text, ",")
             each == [i \in DOMAIN parts |-> decode_tag(parts[i])]
         IN  IF \A i \in DOMAIN each : each[i].ok
             THEN Ok([i \in DOMAIN each |-> each[i].val])
             ELSE Err("Unexpected")

(***************************************************************************)
(* Tag filters (TagFilter, encode_tag_filter, extend_query): None, or      *)
(* [op |-> "Eq", tag] or [op |-> "Not", child].  Encoding encrypts the tag *)
(* name, and the value of an encrypted tag; the compiled clause is an      *)
(* EXISTS sub-query on items_tags correlated to the item.                  *)
(***************************************************************************)
RECURSIVE EncodeFilter(_, _)
EncodeFilter(f, key) ==
    IF f.op = "Eq"
    THEN [op |-> "Eq", tag |-> encrypt_entry_tag(key, f.tag)]
    ELSE [op |-> "Not", child |-> EncodeFilter(f.child, key)]

encode_tag_filter(tag_filter, key) ==
    IF tag_filter = None THEN None ELSE Some(EncodeFilter(Unwrap(tag_filter), key))

RECURSIVE FilterHolds(_, _, _)
FilterHolds(view, item_id, f) ==
    IF f.op = "Eq"
    THEN \E it \in view.items_tags :
            /\ it.item_id = item_id
            /\ it.plaintext = f.tag.plaintext
            /\ it.name = f.tag.name
            /\ it.value = f.tag.value
    ELSE ~FilterHolds(view, item_id, f.child)

\* the clause extend_query appends to the base query (no filter: nothing)
TagClause(view, item_id, enc_filter) ==
    enc_filter = None \/ FilterHolds(view, item_id, Unwrap(enc_filter))

(***************************************************************************)
(* The base SQL queries, evaluated on a view [items, items_tags] of the    *)
(* database (the committed tables, or what a transaction sees).            *)
(***************************************************************************)
\* (expiry IS NULL OR expiry > CURRENT_TIMESTAMP): view.now is what
\* CURRENT_TIMESTAMP gives the statement
NotExpired(view, i) == i.expiry = None \/ Unwrap(i.expiry) > view.now

COUNT_QUERY(view, profile_id, kind, category, enc_filter) ==
    Cardinality({i \in view.items :
        /\ i.profile_id = profile_id /\ i.kind = kind /\ i.category = category
        /\ NotExpired(view, i)
        /\ TagClause(view, i.id, enc_filter)})

FETCH_QUERY(view, profile_id, kind, category, name) ==
    {[id |-> i.id, value |-> i.value, tags |-> TagsColumn(view, i.id)] :
        i \in {j \in view.items :
            /\ j.profile_id = profile_id /\ j.kind = kind
            /\ j.category = category /\ j.name = name
            /\ NotExpired(view, j)}}

\* FETCH_QUERY ... FOR UPDATE: the same rows, and the row locks the
\* transaction takes on them
FETCH_QUERY_UPDATE(view, profile_id, kind, category, name) ==
    [rows |-> FETCH_QUERY(view, profile_id, kind, category, name),
     locked |-> {r.id : r \in FETCH_QUERY(view, profile_id, kind, category, name)}]

\* the rows of SCAN_QUERY; the query has no ORDER BY
SCAN_QUERY(view, profile_id, kind, category, enc_filter) ==
    {[id |-> i.id, name |-> i.name, value |-> i.value,
      tags |-> TagsColumn(view, i.id)] :
        i \in {j \in view.items :
            /\ j.profile_id = profile_id /\ j.kind = kind /\ j.category = category
            /\ NotExpired(view, j)
            /\ TagClause(view, j.id, enc_filter)}}

\* result sets of up to MaxPermuted rows come in every order
MaxPermuted == 3

\* the orders in which the database may give the rows of a query without
\* ORDER BY: any order; for a result of more than MaxPermuted rows, the
\* order of the ids, upwards or downwards
RowOrders(S) ==
    IF Cardinality(S) <= MaxPermuted
    THEN {o \in [1..Cardinality(S) -> S] :
             \A a, b \in 1..Cardinality(S) : a # b => o[a] # o[b]}
    ELSE {OrderById(S),
          [n \in 1..Cardinality(S) |-> OrderById(S)[Cardinality(S) + 1 - n]]}

\* DELETE FROM items WHERE ...; the tag rows of a deleted item go with it
DeleteItems(view, ids) ==
    [view EXCEPT !.items = {i \in view.items : i.id \notin ids},
                 !.items_tags = {it \in view.items_tags : it.item_id \notin ids}]

\* the DELETE without its condition on the name
DELETE_QUERY_AnyName(view, profile_id, kind, category, name) ==
    {i.id : i \in {j \in view.items :
        /\ j.profile_id = profile_id /\ j.kind = kind /\ j.category = category}}

DELETE_QUERY(view, profile_id, kind, category, name) ==
    {i.id : i \in {j \in view.items :
        /\ j.profile_id = profile_id /\ j.kind = kind
        /\ j.category = category /\ j.name = name}}

DELETE_ALL_QUERY(view, profile_id, kind, category, enc_filter) ==
    {i.id : i \in {j \in view.items :
        /\ j.profile_id = profile_id /\ j.kind = kind /\ j.category = category
        /\ TagClause(view, j.id, enc_filter)}}

\* a unique index that leaves expired rows out
InsertConflict_Live(view, profile_id, kind, category, name) ==
    \E i \in view.items :
        /\ i.profile_id = profile_id /\ i.kind = kind
        /\ i.category = category /\ i.name = name
        /\ NotExpired(view, i)

\* ON CONFLICT: the unique index on (profile_id, kind, category, name)
InsertConflict(view, profile_id, kind, category, name) ==
    \E i \in view.items :
        /\ i.profile_id = profile_id /\ i.kind = kind
        /\ i.category = category /\ i.name = name

\* INSERT ... ON CONFLICT DO UPDATE: the row in conflict is overwritten
INSERT_QUERY_Upsert(view, id, profile_id, kind, category, name, value, expiry) ==
    [id |-> Some(id),
     view |-> [view EXCEPT !.items =
        {i \in @ : ~(/\ i.profile_id = profile_id /\ i.kind = kind
                     /\ i.category = category /\ i.name = name)} \cup
        {[id |-> id, profile_id |-> profile_id, kind |-> kind,
          category |-> category, name |-> name, value |-> value,
          expiry |-> expiry]}]]

\* INSERT ... ON CONFLICT DO NOTHING RETURNING id: the new id, or None
INSERT_QUERY(view, id, profile_id, kind, category, name, value, expiry) ==
    IF InsertConflict(view, profile_id, kind, category, name)
    THEN [id |-> None, view |-> view]
    ELSE [id |-> Some(id),
          view |-> [view EXCEPT !.items = @ \cup
              {[id |-> id, profile_id |-> profile_id, kind |-> kind,
                category |-> category, name |-> name, value |-> value,
                expiry |-> expiry]}]]

TAG_INSERT_QUERY(view, id, item_id, tag) ==
    [view EXCEPT !.items_tags = @ \cup
        {[id |-> id, item_id |-> item_id, name |-> tag.name,
          value |-> tag.value, plaintext |-> tag.plaintext]}]

\* the first row of a result set, if any
fetch_optional(rows) ==
    IF rows = {} THEN None
    ELSE Some(CHOOSE r \in rows : \A q \in rows : r.id <= q.id)

\* expiry_ms -> the timestamp bound to the expiry column
expiry_timestamp(expiry_ms) == expiry_ms

(***************************************************************************)
(* perform_insert, perform_remove and the operations of QueryBackend as    *)
(* functions of the view the session's connection sees.  A write returns   *)
(* [ok, err, view, serial]: the result, the view and the sequences after.  *)
(***************************************************************************)
\* a Transaction dropped without commit rolls back to where it began
Rollback(before, after) == before

RECURSIVE InsertTags(_, _, _, _)
InsertTags(view, next_id, row_id, tags) ==
    IF tags = <<>> THEN view
    ELSE InsertTags(TAG_INSERT_QUERY(view, next_id, row_id, Head(tags)),
                    next_id + 1, row_id, Tail(tags))

\* perform_insert: the INSERT of the row, then of its tags.  items.profile_id
\* references profiles: a row for a profile that is gone is refused
perform_insert(view, ser, profile_id, kind, enc_category, enc_name, enc_value, enc_tags, expiry_ms) ==
    LET ins == INSERT_QUERY(view, ser.item, profile_id, kind, enc_category, enc_name,
                    enc_value,
                    IF expiry_ms = None THEN None
                    ELSE Some(expiry_timestamp(Unwrap(expiry_ms))))
    IN  IF ins.id = None
        THEN [ok |-> FALSE, err |-> "Duplicate", view |-> view, serial |-> ser]
        ELSE IF ~\E p \in profiles : p.id = profile_id
        THEN [ok |-> FALSE, err |-> "Backend", view |-> view, serial |-> ser]
        ELSE LET tags == IF enc_tags = None THEN <<>> ELSE Unwrap(enc_tags)
             IN  [ok |-> TRUE, err |-> "",
                  view |-> InsertTags(ins.view, ser.tag, Unwrap(ins.id), tags),
                  serial |-> [ser EXCEPT !.item = @ + 1, !.tag = @ + Len(tags)]]

\* perform_remove that reports the rows but leaves them in place
perform_remove_Keep(view, ser, profile_id, kind, enc_category, enc_name, ignore_error) ==
    LET done == DELETE_QUERY(view, profile_id, kind, enc_category, enc_name)
    IN  IF Cardinality(done) = 0 /\ ~ignore_error
        THEN [ok |-> FALSE, err |-> "NotFound", view |-> view, serial |-> ser]
        ELSE [ok |-> TRUE, err |-> "", view |-> view, serial |-> ser]

perform_remove(view, ser, profile_id, kind, enc_category, enc_name, ignore_error) ==
    LET done == DELETE_QUERY(view, profile_id, kind, enc_category, enc_name)
    IN  IF Cardinality(done) = 0 /\ ~ignore_error
        THEN [ok |-> FALSE, err |-> "NotFound", view |-> view, serial |-> ser]
        ELSE [ok |-> TRUE, err |-> "", view |-> DeleteItems(view, done),
              serial |-> ser]

\* QueryBackend::update, after acquire_key; ss is the active session.  Insert
\* and Replace unwrap the value: with None the task panics before anything
\* is written
update(view, ser, ss, nonce, operation, kind, category, name, value, tags, expiry_ms) ==
    LET enc_category == encrypt_entry_category(ss.key, category)
        enc_name == encrypt_entry_name(ss.key, name)
        enc_value == encrypt_entry_value(ss.key, nonce, Unwrap(value))
        enc_tags == IF tags = None THEN None
                    ELSE Some(encrypt_entry_tags(ss.key, Unwrap(tags)))
    IN  IF operation # "Remove" /\ value = None
        THEN [ok |-> FALSE, err |-> "Panic", view |-> view, serial |-> ser]
        ELSE IF operation = "Insert"
        THEN LET r == perform_insert(view, ser, ss.profile_id, kind, enc_category,
                          enc_name, enc_value, enc_tags, expiry_ms)
             IN  IF r.ok THEN r ELSE [r EXCEPT !.view = Rollback(view, r.view)]
        ELSE IF operation = "Replace"
        THEN LET d == perform_remove(view, ser, ss.profile_id, kind, enc_category,
                          enc_name, FALSE)
             IN  IF ~d.ok THEN [d EXCEPT !.view = Rollback(view, d.view)]
                 ELSE LET r == perform_insert(d.view, d.serial, ss.profile_id, kind,
                                   enc_category, enc_name, enc_value, enc_tags,
                                   expiry_ms)
                      IN  IF r.ok THEN r
                          ELSE [r EXCEPT !.view = Rollback(view, r.view)]
        ELSE perform_remove(view, ser, ss.profile_id, kind, enc_category, enc_name,
                            FALSE)

\* a fetched row decrypted without its tags column
DecryptRow_NoTags(key, row) ==
    LET value == decrypt_entry_value(key, row.value)
    IN  IF ~value.ok THEN value ELSE Ok([value |-> value.val, tags |-> <<>>])

\* the value and tags of a fetched row, decrypted (None tags column: no tags)
DecryptRow(key, row) ==
    LET value == decrypt_entry_value(key, row.value)
        enc_tags == IF row.tags = None THEN Ok(<<>>) ELSE decode_tags(Unwrap(row.tags))
        tags == IF ~enc_tags.ok THEN Err("Unexpected")
                ELSE decrypt_entry_tags(key, enc_tags.val)
    IN  IF ~value.ok THEN value
        ELSE IF ~tags.ok THEN tags
        ELSE Ok([value |-> value.val, tags |-> tags.val])

Entry_new(category, name, value, tags) ==
    [category |-> category, name |-> name, value |-> value, tags |-> tags]

\* QueryBackend::fetch, after acquire_key: Ok(None), Ok(Entry) or an error
fetch(view, ss, kind, category, name, for_update) ==
    LET enc_category == encrypt_entry_category(ss.key, category)
        enc_name == encrypt_entry_name(ss.key, name)
        row == fetch_optional(
                  IF for_update /\ ss.transaction
                  THEN FETCH_QUERY_UPDATE(view, ss.profile_id, kind, enc_category,
                                          enc_name).rows
                  ELSE FETCH_QUERY(view, ss.profile_id, kind, enc_category, enc_name))
    IN  IF row = None THEN Ok(None)
        ELSE LET d == DecryptRow(ss.key, Unwrap(row))
             IN  IF d.ok
                 THEN Ok(Some(Entry_new(category, name, d.val.value, d.val.tags)))
                 ELSE d

\* the rows QueryBackend::fetch locks: those of FETCH_QUERY_UPDATE
fetch_locks(view, ss, kind, category, name, for_update) ==
    IF for_update /\ ss.transaction
    THEN FETCH_QUERY_UPDATE(view, ss.profile_id, kind,
                            encrypt_entry_category(ss.key, category),
                            encrypt_entry_name(ss.key, name)).locked
    ELSE {}

\* QueryBackend::count, after acquire_key
count(view, ss, kind, category, tag_filter) ==
    Ok(COUNT_QUERY(view, ss.profile_id, kind,
                   encrypt_entry_category(ss.key, category),
                   encode_tag_filter(tag_filter, ss.key)))

\* limit_query: LIMIT limit OFFSET offset when either is given
limit_query(rows, offset, limit) ==
    IF offset = None /\ limit = None THEN rows
    ELSE LET off == IF offset = None THEN 0 ELSE Unwrap(offset)
             last == IF limit = None \/ off + Unwrap(limit) > Len(rows)
                     THEN Len(rows) ELSE off + Unwrap(limit)
         IN  SubSeq(rows, off + 1, last)

\* perform_scan, the body of the row loop: the rows decrypted into entries,
\* or the error of the first row that fails
ScanEntries(key, category, rows) ==
    LET name == [i \in DOMAIN rows |-> decrypt_entry_name(key, rows[i].name)]
        rest == [i \in DOMAIN rows |-> DecryptRow(key, rows[i])]
        bad == {i \in DOMAIN rows : ~name[i].ok \/ ~rest[i].ok}
    IN  IF bad # {}
        THEN LET i == CHOOSE j \in bad : \A q \in bad : j <= q
             IN  IF ~name[i].ok THEN name[i] ELSE rest[i]
        ELSE Ok([i \in DOMAIN rows |->
                    Entry_new(category, name[i].val, rest[i].val.value,
                              rest[i].val.tags)])

\* perform_scan, the query of the stream: the rows of the cursor, in one of
\* the orders the database may give them in
ScanCursors(view, ss, kind, category, tag_filter, offset, limit) ==
    {limit_query(o, offset, limit) :
        o \in RowOrders(SCAN_QUERY(view, ss.profile_id, kind,
                            encrypt_entry_category(ss.key, category),
                            encode_tag_filter(tag_filter, ss.key)))}

\* what perform_scan's stream can give when it is read to its end: for each
\* cursor, its rows decrypted in cursor order (or the error of the first row
\* that fails), and the rows that FOR UPDATE locks
perform_scan(view, ss, kind, category, tag_filter, offset, limit, for_update) ==
    {[out |-> ScanEntries(ss.key, category, c),
      locked |-> IF for_update THEN {c[n].id : n \in DOMAIN c} ELSE {}] :
        c \in ScanCursors(view, ss, kind, category, tag_filter, offset, limit)}


\* QueryBackend::fetch_all: the scan driven to its end
fetch_all(view, ss, kind, category, tag_filter, limit, for_update) ==
    perform_scan(view, ss, kind, category, tag_filter, None, limit,
                 for_update /\ ss.transaction)

\* QueryBackend::remove_all, after acquire_key: the rows removed and the view after
remove_all(view, ss, kind, category, tag_filter) ==
    LET removed == DELETE_ALL_QUERY(view, ss.profile_id, kind,
                       encrypt_entry_category(ss.key, category),
                       encode_tag_filter(tag_filter, ss.key))
    IN  [ok |-> TRUE, val |-> Cardinality(removed),
         view |-> DeleteItems(view, removed)]

(***************************************************************************)
(* DbSession: Pending (no connection), then Active (one connection checked *)
(* out, profile id and key resolved, a transaction open when the session   *)
(* is transactional).  A transaction's uncommitted writes are the rows it  *)
(* inserted (ins, ins_tags), the keys of the rows it inserted and deleted   *)
(* again (dead) and the ids of the committed rows it deleted (del); began  *)
(* is the time its transaction was opened.                                 *)
(***************************************************************************)
NoSession ==
    [state |-> "None", profile |-> None, transaction |-> FALSE, cache |-> None,
     profile_id |-> None, key |-> None, ins |-> {}, ins_tags |-> {}, dead |-> {},
     del |-> {}, locks |-> {}, stmt |-> None, aborted |-> FALSE, began |-> None]

DbSession_new(cache, profile, transaction) ==
    [NoSession EXCEPT !.state = "Pending", !.profile = profile,
                      !.transaction = transaction, !.cache = cache]

\* no Scan held; a Scan holds the DbSession it was made on, the arguments of
\* its query, the rows its cursor has still to give, and (history) the
\* batches it has yielded and the rows of its cursor
NoScan ==
    [state |-> "None", sess |-> NoSession, started |-> FALSE, rows |-> <<>>,
     args |-> <<>>, yielded |-> <<>>, cursor |-> <<>>]

\* db_utils::PAGE_SIZE
PAGE_SIZE == 32

\* a stream that yields a batch only once it has grown past PAGE_SIZE
BatchFull_Past(batch) == Len(batch) > PAGE_SIZE

\* perform_scan: `batch.len() == PAGE_SIZE`
BatchFull(batch) == Len(batch) = PAGE_SIZE

\* how many rows the stream reads before it yields or the cursor ends
RECURSIVE BatchLen(_, _)
BatchLen(rows, batch) ==
    IF rows = <<>> \/ BatchFull(batch) THEN Len(batch)
    ELSE BatchLen(Tail(rows), Append(batch, Head(rows)))

\* a Scan whose stream has gone but whose session stays as it was
ScanEnded_KeepSession(sc, state) ==
    [sc EXCEPT !.state = state, !.started = TRUE, !.rows = <<>>]

\* the Scan whose stream has gone, and with it the session
ScanEnded(sc, state) ==
    [sc EXCEPT !.state = state, !.sess = NoSession, !.started = TRUE, !.rows = <<>>]

\* perform_scan's stream at its yield points, the first n rows of the cursor
\* read into `batch`: a failing row ends the stream with its error (`fault`
\* is the cursor failing, `row?`); a full batch is yielded with the session
\* kept; at the end of the cursor the session is dropped and the batch
\* yielded if it holds anything
stream_yield(sc, rows, n, batch, fault) ==
    IF fault THEN [out |-> Err("Backend"), scan |-> ScanEnded(sc, "Failed")]
    ELSE IF ~batch.ok THEN [out |-> batch, scan |-> ScanEnded(sc, "Failed")]
    ELSE IF BatchFull(batch.val)
    THEN [out |-> Ok(Some(batch.val)),
          scan |-> [sc EXCEPT !.started = TRUE,
                              !.rows = SubSeq(rows, n + 1, Len(rows)),
                              !.yielded = Append(@, batch.val)]]
    ELSE IF Len(batch.val) > 0
    THEN [out |-> Ok(Some(batch.val)),
          scan |-> [ScanEnded(sc, "Done") EXCEPT !.yielded = Append(@, batch.val)]]
    ELSE [out |-> Ok(None), scan |-> ScanEnded(sc, "Done")]

\* one poll of perform_scan's stream over the rows its cursor has still to give
stream_next(sc, rows, fault) ==
    LET n == BatchLen(rows, <<>>)
    IN  stream_yield(sc, rows, n,
                     ScanEntries(sc.sess.key, sc.args.category, SubSeq(rows, 1, n)),
                     fault)

\* the rows of the stream's cursor: the first poll runs the query
stream_rows(sc, view) ==
    IF sc.started \/ sc.state # "Open" THEN {sc.rows}
    ELSE ScanCursors(view, sc.sess, sc.args.kind, sc.args.category,
                     sc.args.tag_filter, sc.args.offset, sc.args.limit)

\* Scan::fetch_next: the next batch of the stream, whose cursor has `rows`
\* still to give; a Scan whose stream ended, failed or gave a short batch has
\* dropped it and gives None
fetch_next(sc, rows, fault) ==
    IF sc.state # "Open" THEN [out |-> Ok(None), scan |-> sc]
    ELSE stream_next(sc, rows, fault)

Committed == [items |-> items, items_tags |-> items_tags, now |-> now]

\* CURRENT_TIMESTAMP on the session's connection: inside a transaction the
\* time the transaction began, outside one the time of the statement
CurrentTimestamp(ss) == IF ss.transaction /\ ss.began # None THEN Unwrap(ss.began) ELSE now

\* what the session's connection reads: the committed rows (read committed)
\* and, inside a transaction, its own uncommitted writes
SessionView(ss) ==
    [items |-> {i \in items : i.id \notin ss.del} \cup ss.ins,
     items_tags |-> {it \in items_tags : it.item_id \notin ss.del} \cup ss.ins_tags,
     now |-> CurrentTimestamp(ss)]

ItemKey(i) == <<i.profile_id, i.kind, i.category, i.name>>

\* the ids of the rows of the committed tables
CommittedIds == {i.id : i \in items}

\* the committed rows that sessions other than s hold until their transaction
\* (or their statement, outside one) ends: rows it has deleted, and rows it
\* has locked FOR UPDATE
HeldRows(s) == UNION {sessions[t].del \cup sessions[t].locks : t \in Sessions \ {s}}

\* the sessions an INSERT of the key waits for: the unique index finds a row
\* of the key that an open transaction has inserted (and may have deleted
\* again), or is deleting
InsertHolders(s, key) ==
    {t \in Sessions \ {s} :
        \/ \E i \in sessions[t].ins : ItemKey(i) = key
        \/ key \in sessions[t].dead
        \/ \E i \in items : ItemKey(i) = key /\ i.id \in sessions[t].del}

\* the call of the statement st has come to its INSERT: an Insert at once, a
\* Replace when its DELETE is done
InsertRuns(st) ==
    st.insert # None /\ (st.call.operation = "Insert" \/ st.phase = "insert")

\* the sessions that the statement st of session s waits for: those that hold
\* a row it is to delete or lock (st.want), or that its INSERT waits for
WaitsFor(s, st) ==
    {t \in Sessions \ {s} :
        (sessions[t].del \cup sessions[t].locks) \cap st.want \cap CommittedIds # {}}
    \cup (IF InsertRuns(st) THEN InsertHolders(s, Unwrap(st.insert)) ELSE {})

\* what a statement that has waited still sees: the rows of its snapshot that
\* are there yet.  Rows committed since are not seen, and a row whose delete
\* was committed meanwhile is passed over
StatementView(view, snap) ==
    [view EXCEPT !.items = {i \in view.items : i.id \in snap},
                 !.items_tags = {it \in view.items_tags : it.item_id \in snap}]

\* the view once the statement has made `after` of the rows `seen`
Merge(view, seen, after) ==
    [view EXCEPT !.items = (view.items \ seen.items) \cup after.items,
                 !.items_tags = (view.items_tags \ seen.items_tags)
                                    \cup after.items_tags]

\* the session after the database has aborted its transaction, or rolled
\* back the statement it ran outside one: nothing written, nothing held; a
\* transaction refuses every statement from then on
Aborted(ss) ==
    [ss EXCEPT !.ins = {}, !.ins_tags = {}, !.dead = {}, !.del = {}, !.locks = {},
               !.stmt = None,
               !.aborted = ss.transaction]

\* PostgresStore's placeholder style, and the parameter marker of the query
\* of resolve_profile_key; the server prepares a statement only in its own style
\* the SQLite-style placeholder
placeholder_Question(index) == [sigil |-> "?", index |-> index]

placeholder(index) == [sigil |-> "$", index |-> index]

\* the decimal digits of a number, and the number a run of digits stands for
Digits == <<"0", "1", "2", "3", "4", "5", "6", "7", "8", "9">>

IsDigit(c) == \E d \in DOMAIN Digits : Digits[d] = c

DigitValue(c) == (CHOOSE d \in DOMAIN Digits : Digits[d] = c) - 1

RECURSIVE Decimal(_)
Decimal(n) == IF n < 10 THEN <<Digits[n + 1]>>
              ELSE Decimal(n \div 10) \o <<Digits[(n % 10) + 1]>>

RECURSIVE ParseDecimal(_)
ParseDecimal(ds) ==
    IF ds = <<>> THEN 0
    ELSE ParseDecimal(SubSeq(ds, 1, Len(ds) - 1)) * 10 + DigitValue(ds[Len(ds)])

\* the String that placeholder(index) formats
PlaceholderText(param) == <<param.sigil>> \o Decimal(param.index)

\* the length of the run of digits at the head of a text
RECURSIVE DigitRun(_)
DigitRun(text) ==
    IF text # <<>> /\ IsDigit(Head(text)) THEN 1 + DigitRun(Tail(text)) ELSE 0

\* the offset (from 0) of the first '$' of a text, Len(text) when it has none
RECURSIVE FindDollar(_)
FindDollar(text) ==
    IF text = <<>> \/ Head(text) = "$" THEN 0 ELSE 1 + FindDollar(Tail(text))

\* replace_arg_placeholders: the walk over what remains of the text, with the
\* index of the next `$$` and the buffer written so far
RECURSIVE ReplaceWalk(_, _, _, _)
ReplaceWalk(remain, index, start_index, buffer) ==
    LET start_offs == FindDollar(remain)
        rest == SubSeq(remain, start_offs + 2, Len(remain))
        before == SubSeq(remain, 1, start_offs)
    IN  IF start_offs = Len(remain) THEN buffer \o remain
        ELSE IF rest # <<>> /\ Head(rest) = "$"
        THEN ReplaceWalk(Tail(rest), index + 1, start_index,
                 buffer \o before \o PlaceholderText(placeholder(index)))
        ELSE IF rest # <<>> /\ IsDigit(Head(rest))
        THEN LET n == DigitRun(rest)
                 sub_index == ParseDecimal(SubSeq(rest, 1, n)) + start_index - 1
             IN  ReplaceWalk(SubSeq(rest, n + 1, Len(rest)), index + 1, start_index,
                     buffer \o before \o PlaceholderText(placeholder(sub_index)))
        ELSE ReplaceWalk(rest, index, start_index, buffer \o before \o <<"$">>)

replace_arg_placeholders(filter, start_index) ==
    ReplaceWalk(filter, start_index, start_index, <<>>)

ResolveProfileParam == [sigil |-> "?", index |-> 1]

Prepares(param) == param = placeholder(param.index)

\* resolve_profile_key after a miss of get_profile: the SELECT on profiles,
\* load_key of the row's store_key and add_profile
resolve_profile_load(cs, cache_id, profile) ==
    LET row == {p \in profiles : p.name = profile}
    IN  IF ~Prepares(ResolveProfileParam)
        THEN [ok |-> FALSE, err |-> "Backend", caches |-> cs]
        ELSE IF row = {}
        THEN [ok |-> FALSE, err |-> "NotFound", caches |-> cs]
        ELSE LET r == CHOOSE p \in row : TRUE
                 key == load_key(cs[cache_id], r.store_key)
             IN  IF ~key.ok THEN [ok |-> FALSE, err |-> key.err, caches |-> cs]
                 ELSE [ok |-> TRUE, err |-> "", pid |-> r.id, key |-> key.val,
                       caches |-> [cs EXCEPT ![cache_id] =
                                      add_profile(@, profile, r.id, key.val)]]

resolve_profile_key(cs, cache_id, profile) ==
    LET hit == get_profile(cs[cache_id], profile)
    IN  IF hit # None
        THEN [ok |-> TRUE, err |-> "", pid |-> Unwrap(hit).pid, key |-> Unwrap(hit).key,
              caches |-> cs]
        ELSE resolve_profile_load(cs, cache_id, profile)

\* the time the transaction of a session begins, when it has one: the time
\* it becomes Active
Began(ss) == IF ss.transaction THEN Some(now) ELSE None

\* DbSession::make_active with resolve_profile_key: a Pending session takes a
\* connection, resolves its profile and becomes Active; on an error the
\* connection goes back and the session stays Pending.  A pool that
\* Backend::close has closed gives no connection: the acquire fails
make_active(cs, ss) ==
    IF ss.state = "Active"
    THEN [ok |-> TRUE, err |-> "", sess |-> ss, caches |-> cs, acquired |-> 0]
    ELSE IF pool # "Open"
    THEN [ok |-> FALSE, err |-> "Backend", sess |-> ss, caches |-> cs, acquired |-> 0]
    ELSE LET r == resolve_profile_key(cs, ss.cache, ss.profile)
         IN  IF r.ok
             THEN [ok |-> TRUE, err |-> "",
                   sess |-> [ss EXCEPT !.state = "Active", !.profile_id = r.pid,
                                       !.key = r.key,
                                       !.began = Began(ss)],
                   caches |-> r.caches, acquired |-> 1]
             ELSE [ok |-> FALSE, err |-> r.err, sess |-> ss, caches |-> cs,
                   acquired |-> 0]

\* an acquire_key that resolves the default profile whatever the session names
acquire_key_Default(cs, ss) ==
    LET a == make_active(cs, [ss EXCEPT !.profile = "default"])
    IN  [a EXCEPT !.sess.profile = ss.profile]

\* acquire_key and acquire_session both go through make_active
acquire_key(cs, ss) == make_active(cs, ss)

\* the pool has a connection to give, or is closed and fails the acquire
CanAcquire == pool = "Open" => checked_out < PoolSize

\* a call whose acquire_key has returned and whose first statement is still
\* to come: it holds no row and waits for none
Acquired ==
    [call |-> [op |-> "acquire_key"], nonce |-> 0, snap |-> {}, want |-> {},
     early |-> {}, insert |-> None, phase |-> "acquired"]

\* a session that exists and is in no call (the calls borrow it), or whose
\* call is suspended after acquire_key and now goes on; a Pending one needs a
\* free connection to go on
CanRun(s) ==
    /\ sessions[s].state \in {"Pending", "Active"}
    /\ sessions[s].stmt \in {None, Some(Acquired)}
    /\ sessions[s].state = "Pending" => CanAcquire

\* the keys of the rows the session had inserted and `view` has no more: the
\* index keeps them until the transaction ends
DeadKeys(ss, view) == {ItemKey(i) : i \in ss.ins \ view.items}

\* the session after a statement left its connection seeing `view`: inside a
\* transaction the writes stay its own, otherwise they are committed
Written(s, ss, view) ==
    IF ss.transaction
    THEN /\ sessions' = [sessions EXCEPT ![s] =
                [ss EXCEPT !.ins = view.items \ items,
                           !.ins_tags = view.items_tags \ items_tags,
                           !.dead = @ \cup DeadKeys(ss, view),
                           !.del = CommittedIds \ {i.id : i \in view.items}]]
         /\ UNCHANGED <<items, items_tags>>
    ELSE /\ sessions' = [sessions EXCEPT ![s] =
                [ss EXCEPT !.ins = {}, !.ins_tags = {}, !.dead = {}, !.del = {}]]
         /\ items' = view.items
         /\ items_tags' = view.items_tags

\* the session in the middle of a call, its connection seeing `view`: what
\* the call has written so far is uncommitted, in a transaction or not
Held(s, ss, view) ==
    /\ sessions' = [sessions EXCEPT ![s] =
            [ss EXCEPT !.ins = view.items \ items,
                       !.ins_tags = view.items_tags \ items_tags,
                       !.dead = @ \cup DeadKeys(ss, view),
                       !.del = CommittedIds \ {i.id : i \in view.items}]]
    /\ UNCHANGED <<items, items_tags>>

(***************************************************************************)
(* WrapKeyMethod::resolve: the wrap key and its reference, or an error     *)
(* when the pass key is not usable.                                        *)
(***************************************************************************)
WrapKeyMethod_resolve(method, pass_key) ==
    IF pass_key = None THEN Err("Input")
    ELSE Ok([wrap_key |-> <<method, Unwrap(pass_key)>>,
             wrap_key_ref |-> [uri |-> method]])

(***************************************************************************)
(* The state after the store was provisioned and opened: the default       *)
(* profile exists, its store key wrapped under the wrap key, and the       *)
(* KeyCache holds it.                                                      *)
(***************************************************************************)
DefaultProfile == "default"

InitWrap == WrapKeyMethod_resolve("kdf", Some("p1")).val

Init ==
    /\ profiles = {[id |-> 1, name |-> DefaultProfile,
                    store_key |-> encode_store_key(1, InitWrap.wrap_key)]}
    /\ items = {}
    /\ items_tags = {}
    /\ config = [wrap_key |-> InitWrap.wrap_key_ref]
    /\ key_cache = 1
    /\ caches = (1 :> add_profile(KeyCache_new(InitWrap.wrap_key), DefaultProfile, 1, 1))
    /\ sessions = [s \in Sessions |-> NoSession]
    /\ scan = NoScan
    /\ pool = "Open"
    /\ creating = {}
    /\ removing = EmptyBag
    /\ checked_out = 0
    /\ now = 0
    /\ serial = [item |-> 1, tag |-> 1, profile |-> 2, key |-> 2]
    /\ res = [op |-> "init"]
    /\ inserted = <<>>

\* the KeyCache instances still referenced (an Arc drops with its last holder)
LiveCachesOf(cs, sess, kc, sc) ==
    [c \in {kc} \cup {sess[s].cache : s \in {t \in Sessions : sess[t].state # "None"}}
             \cup (IF sc.state = "Open" THEN {sc.sess.cache} ELSE {})
        |-> cs[c]]

LiveCaches(cs, sess, kc) == LiveCachesOf(cs, sess, kc, scan)

(***************************************************************************)
(* Backend::session and the operations of QueryBackend.                    *)
(***************************************************************************)
\* PostgresStore::session(profile, transaction); no profile: the default one
\* a session that takes its connection and resolves its key when it is made
Session_Eager(s, profile, transaction) ==
    /\ sessions[s].state = "None"
    /\ CanAcquire
    /\ LET a == acquire_key(caches,
                    DbSession_new(key_cache,
                        IF profile = None THEN DefaultProfile ELSE Unwrap(profile),
                        transaction))
       IN  /\ sessions' = [sessions EXCEPT ![s] = a.sess]
           /\ checked_out' = checked_out + a.acquired
    /\ res' = [op |-> "session", session |-> s]
    /\ UNCHANGED <<pool, creating, removing, scan, profiles, items, items_tags, config,
                   key_cache, caches, now, serial, inserted>>

\* Backend::session: a Pending DbSession on the store's pool and KeyCache
Session(s, profile, transaction) ==
    /\ sessions[s].state = "None"
    /\ sessions' = [sessions EXCEPT ![s] =
            DbSession_new(key_cache,
                          IF profile = None THEN DefaultProfile ELSE Unwrap(profile),
                          transaction)]
    /\ res' = [op |-> "session", session |-> s]
    /\ UNCHANGED <<pool, creating, removing, scan, profiles, items, items_tags, config,
                   key_cache, caches, checked_out, now, serial, inserted>>

\* a statement of a call of QueryBackend as the database runs it: the call,
\* the nonce of its encryption, the ids of the rows its snapshot sees (snap),
\* the committed rows it is to delete or lock (want), those it had deleted
\* or locked when it came to wait (early), the key of its INSERT, and how far
\* the call has come ("insert": the DELETE of a Replace is done)
Statement(call, nonce, view, want, insert) ==
    [call |-> call, nonce |-> nonce, snap |-> {i.id : i \in view.items},
     want |-> want \cap CommittedIds, early |-> {}, insert |-> insert,
     phase |-> "start"]

\* the statement waits for a row another session holds: the call does not
\* return yet, and the session holds the rows the statement has deleted
\* (del) or locked (locks) before it came to that row
Wait(s, ss, st, del, locks) ==
    /\ sessions' = [sessions EXCEPT ![s] =
            [ss EXCEPT !.stmt = Some([st EXCEPT !.early = del \cup locks]),
                       !.del = @ \cup del, !.locks = @ \cup locks]]
    /\ res' = [op |-> "wait", session |-> s, call |-> st.call]
    /\ UNCHANGED <<items, items_tags, serial, inserted>>

\* the call returns an error and has written nothing
Fails(s, ss, call, err) ==
    /\ sessions' = [sessions EXCEPT ![s] = ss]
    /\ res' = call @@ [out |-> Err(err)]
    /\ UNCHANGED <<items, items_tags, serial, inserted>>

\* another session is there to run into what a call holds between two of
\* its statements; without one no step tells the call from an atomic one
Observed(s) == \E t \in Sessions \ {s} : sessions[t].state # "None"

\* acquire_key has made the Pending session Active (the connection taken,
\* the transaction of a transactional session begun) and the task of the
\* call is suspended at an await before its first statement: other tasks
\* run, and the clock.  Up to there the call has not looked at its
\* arguments, and they are the same whenever the task goes on: the step of
\* the call that runs its statement has them.  On an Active session
\* acquire_key changes nothing, and a call suspended there is a call that
\* starts later
PauseAcquired(s, a) ==
    /\ a.ok
    /\ a.acquired = 1
    /\ sessions' = [sessions EXCEPT ![s] = [a.sess EXCEPT !.stmt = Some(Acquired)]]
    /\ res' = [op |-> "wait", session |-> s, call |-> Acquired.call]
    /\ UNCHANGED <<items, items_tags, serial, inserted>>

\* the session as the call goes on with it after acquire_key
Resumed(ss) == [ss EXCEPT !.stmt = None]

\* the SELECT of count on the Active session
RunCount(s, ss, call) ==
    /\ sessions' = [sessions EXCEPT ![s] = ss]
    /\ res' = call @@ [out |-> IF ss.aborted THEN Err("Backend")
                               ELSE count(SessionView(ss), ss, call.kind,
                                          call.category, call.tag_filter)]
    /\ UNCHANGED <<items, items_tags, serial, inserted>>

Count(s, kind, category, tag_filter) ==
    /\ CanRun(s)
    /\ LET a == acquire_key(caches, sessions[s])
           call == [op |-> "count", session |-> s, kind |-> kind,
                    category |-> category, tag_filter |-> tag_filter]
       IN  /\ caches' = a.caches
           /\ checked_out' = checked_out + a.acquired
           /\ \/ IF ~a.ok THEN Fails(s, a.sess, call, a.err)
                 ELSE RunCount(s, Resumed(a.sess), call)
              \/ PauseAcquired(s, a)
    /\ UNCHANGED <<pool, creating, removing, scan, profiles, config, key_cache, now>>

\* the SELECT of fetch returns: with FOR UPDATE its row is locked
FinishFetch(s, ss, st, seen) ==
    /\ sessions' = [sessions EXCEPT ![s] =
            [ss EXCEPT !.stmt = None,
                       !.locks = @ \cup (CommittedIds \cap
                            fetch_locks(seen, ss, st.call.kind, st.call.category,
                                        st.call.name, st.call.for_update))]]
    /\ res' = st.call @@ [out |-> fetch(seen, ss, st.call.kind, st.call.category,
                                        st.call.name, st.call.for_update)]
    /\ UNCHANGED <<items, items_tags, serial, inserted>>

\* the SELECT of fetch: FOR UPDATE waits for the session that holds its row
RunFetch(s, ss, st) ==
    IF WaitsFor(s, st) # {} THEN Wait(s, ss, st, {}, {})
    ELSE FinishFetch(s, ss, st, StatementView(SessionView(ss), st.snap))

\* fetch on the Active session: its SELECT starts
StartFetch(s, ss, call) ==
    IF ss.aborted THEN Fails(s, ss, call, "Backend")
    ELSE RunFetch(s, ss,
             Statement(call, 0, SessionView(ss),
                       fetch_locks(SessionView(ss), ss, call.kind, call.category,
                                   call.name, call.for_update),
                       None))

Fetch(s, kind, category, name, for_update) ==
    /\ CanRun(s)
    /\ LET a == acquire_key(caches, sessions[s])
           call == [op |-> "fetch", session |-> s, kind |-> kind,
                    category |-> category, name |-> name, for_update |-> for_update]
       IN  /\ caches' = a.caches
           /\ checked_out' = checked_out + a.acquired
           /\ \/ IF ~a.ok THEN Fails(s, a.sess, call, a.err)
                 ELSE StartFetch(s, Resumed(a.sess), call)
              \/ PauseAcquired(s, a)
    /\ UNCHANGED <<pool, creating, removing, scan, profiles, config, key_cache, now>>

\* the stream of fetch_all was read to its end: with FOR UPDATE the rows of
\* the cursor are locked
FinishFetchAll(s, ss, st, r) ==
    /\ sessions' = [sessions EXCEPT ![s] =
            [ss EXCEPT !.stmt = None, !.locks = @ \cup (CommittedIds \cap r.locked)]]
    /\ res' = st.call @@ [out |-> r.out]
    /\ UNCHANGED <<items, items_tags, serial, inserted>>

\* the SELECT of fetch_all: FOR UPDATE locks the rows as the cursor comes to
\* them and waits at a row another session holds, having locked some of the
\* others; a row that is gone after the wait is passed over
RunFetchAll(s, ss, st) ==
    \E r \in fetch_all(StatementView(SessionView(ss), st.snap), ss, st.call.kind,
                       st.call.category, st.call.tag_filter, st.call.limit,
                       st.call.for_update) :
        /\ st.early \subseteq r.locked
        /\ IF WaitsFor(s, [st EXCEPT !.want = CommittedIds \cap r.locked]) # {}
           THEN \E locks \in SUBSET ((CommittedIds \cap r.locked) \ HeldRows(s)) :
                    /\ st.early \subseteq locks
                    /\ Wait(s, ss, [st EXCEPT !.want = CommittedIds \cap r.locked],
                            {}, locks)
           ELSE FinishFetchAll(s, ss, st, r)

\* fetch_all on the Active session: the query of its stream starts
StartFetchAll(s, ss, call) ==
    IF ss.aborted THEN Fails(s, ss, call, "Backend")
    ELSE RunFetchAll(s, ss, Statement(call, 0, SessionView(ss), {}, None))

FetchAll(s, kind, category, tag_filter, limit, for_update) ==
    /\ CanRun(s)
    /\ LET a == acquire_key(caches, sessions[s])
           call == [op |-> "fetch_all", session |-> s, kind |-> kind,
                    category |-> category, tag_filter |-> tag_filter,
                    limit |-> limit, for_update |-> for_update]
       IN  /\ caches' = a.caches
           /\ checked_out' = checked_out + a.acquired
           /\ \/ IF ~a.ok THEN Fails(s, a.sess, call, a.err)
                 ELSE StartFetchAll(s, Resumed(a.sess), call)
              \/ PauseAcquired(s, a)
    /\ UNCHANGED <<pool, creating, removing, scan, profiles, config, key_cache, now>>

\* the DELETE of remove_all has come through: r is what it made of the rows
\* `seen`; the rows deleted before a wait count as well
FinishRemoveAll(s, ss, st, seen, r) ==
    /\ Written(s, [ss EXCEPT !.stmt = None], Merge(SessionView(ss), seen, r.view))
    /\ res' = st.call @@ [out |-> Ok(r.val + Cardinality(st.early))]
    /\ UNCHANGED <<serial, inserted>>

\* the DELETE of remove_all: it waits at a row another session holds, having
\* deleted some of the others
RunRemoveAll(s, ss, st) ==
    IF WaitsFor(s, st) # {}
    THEN \E del \in SUBSET (st.want \ HeldRows(s)) : Wait(s, ss, st, del, {})
    ELSE FinishRemoveAll(s, ss, st, StatementView(SessionView(ss), st.snap),
             remove_all(StatementView(SessionView(ss), st.snap), ss, st.call.kind,
                        st.call.category, st.call.tag_filter))

\* remove_all on the Active session: its DELETE starts
StartRemoveAll(s, ss, call) ==
    IF ss.aborted THEN Fails(s, ss, call, "Backend")
    ELSE RunRemoveAll(s, ss,
             Statement(call, 0, SessionView(ss),
                 DELETE_ALL_QUERY(SessionView(ss), ss.profile_id, call.kind,
                     encrypt_entry_category(ss.key, call.category),
                     encode_tag_filter(call.tag_filter, ss.key)),
                 None))

RemoveAll(s, kind, category, tag_filter) ==
    /\ CanRun(s)
    /\ LET a == acquire_key(caches, sessions[s])
           call == [op |-> "remove_all", session |-> s, kind |-> kind,
                    category |-> category, tag_filter |-> tag_filter]
       IN  /\ caches' = a.caches
           /\ checked_out' = checked_out + a.acquired
           /\ \/ IF ~a.ok THEN Fails(s, a.sess, call, a.err)
                 ELSE StartRemoveAll(s, Resumed(a.sess), call)
              \/ PauseAcquired(s, a)
    /\ UNCHANGED <<pool, creating, removing, scan, profiles, config, key_cache, now>>

\* the statements of update have come through: r is what they made of the
\* rows `seen`.  An error of the database aborts the transaction
FinishUpdate(s, ss, st, seen, r) ==
    /\ IF ~r.ok /\ r.err = "Backend"
       THEN /\ sessions' = [sessions EXCEPT ![s] = Aborted(ss)]
            /\ UNCHANGED <<items, items_tags>>
       ELSE Written(s, [ss EXCEPT !.stmt = None], Merge(SessionView(ss), seen, r.view))
    /\ serial' = r.serial
    /\ inserted' = IF r.ok /\ st.call.operation # "Remove"
                   THEN Append(inserted, Entry_new(st.call.category, st.call.name,
                                                   Unwrap(st.call.value), st.call.tags))
                   ELSE inserted
    /\ res' = st.call @@ [out |-> IF r.ok THEN Ok(None) ELSE Err(r.err)]

\* update as the call's own statements see the rows: the DELETE of Remove and
\* of Replace sees its snapshot, the INSERT meets the unique index as it is
UpdateSees(ss, st) ==
    IF st.call.operation = "Insert" \/ st.phase = "insert" THEN SessionView(ss)
    ELSE StatementView(SessionView(ss), st.snap)

\* the DELETE of a Replace is done and its INSERT still to come: the deleted
\* row is held, uncommitted, and the call goes on in a later step
PauseReplace(s, ss, st, seen, d) ==
    /\ st.call.operation = "Replace"
    /\ st.call.value # None
    /\ st.phase = "start"
    /\ Observed(s)
    /\ d.ok
    /\ Held(s, [ss EXCEPT !.stmt = Some([st EXCEPT !.phase = "insert", !.want = {}])],
            Merge(SessionView(ss), seen, d.view))
    /\ res' = [op |-> "wait", session |-> s, call |-> st.call]
    /\ UNCHANGED <<serial, inserted>>

\* the call can run to its end in this step: the INSERT that follows the
\* DELETE of a Replace has no session to wait for
RunsThrough(s, st, d) ==
    (st.call.operation = "Replace" /\ st.phase = "start" /\ st.insert # None /\ d.ok)
        => InsertHolders(s, Unwrap(st.insert)) = {}

\* the statements of update: the DELETE waits for the session that holds its
\* row, the INSERT for the session that inserted or is deleting a row of its
\* key.  A Replace runs its DELETE first and returns NotFound when that
\* deletes no row, without coming to its INSERT; after its DELETE the call
\* is Insert with what is left
RunUpdate(s, ss, st) ==
    IF WaitsFor(s, st) # {} THEN Wait(s, ss, st, {}, {})
    ELSE \/ /\ RunsThrough(s, st,
                    update(UpdateSees(ss, st), serial, ss, st.nonce, "Remove",
                           st.call.kind, st.call.category, st.call.name, st.call.value,
                           st.call.tags, st.call.expiry_ms))
            /\ FinishUpdate(s, ss, st, UpdateSees(ss, st),
                update(UpdateSees(ss, st), serial, ss, st.nonce,
                       IF st.phase = "insert" THEN "Insert" ELSE st.call.operation,
                       st.call.kind, st.call.category, st.call.name, st.call.value,
                       st.call.tags, st.call.expiry_ms))
         \/ PauseReplace(s, ss, st, UpdateSees(ss, st),
                update(UpdateSees(ss, st), serial, ss, st.nonce, "Remove",
                       st.call.kind, st.call.category, st.call.name, st.call.value,
                       st.call.tags, st.call.expiry_ms))

\* the statement update runs first: Insert and Replace unwrap the value
\* before, and with None no statement runs
UpdateStatement(ss, call, nonce, key) ==
    Statement(call, nonce, SessionView(ss),
        IF call.operation = "Remove" \/ (call.operation = "Replace" /\ call.value # None)
        THEN DELETE_QUERY(SessionView(ss), key[1], key[2], key[3], key[4])
        ELSE {},
        IF call.operation # "Remove" /\ call.value # None THEN Some(key) ELSE None)

\* update on the Active session: the match on the operation, and its first
\* statement
StartUpdate(s, ss, call, nonce) ==
    IF ss.aborted /\ (call.operation = "Remove" \/ call.value # None)
    THEN Fails(s, ss, call, "Backend")
    ELSE RunUpdate(s, ss,
             UpdateStatement(ss, call, nonce,
                 <<ss.profile_id, call.kind,
                   encrypt_entry_category(ss.key, call.category),
                   encrypt_entry_name(ss.key, call.name)>>))

Update(s, operation, kind, category, name, value, tags, expiry_ms, nonce) ==
    /\ CanRun(s)
    /\ operation # "Remove" => serial.item <= MaxItemId
    /\ LET a == acquire_key(caches, sessions[s])
           call == [op |-> "update", session |-> s, operation |-> operation,
                    kind |-> kind, category |-> category, name |-> name,
                    value |-> value, tags |-> tags, expiry_ms |-> expiry_ms]
       IN  /\ caches' = a.caches
           /\ checked_out' = checked_out + a.acquired
           /\ \/ IF ~a.ok THEN Fails(s, a.sess, call, a.err)
                 ELSE StartUpdate(s, Resumed(a.sess), call, nonce)
              \/ PauseAcquired(s, a)
    /\ UNCHANGED <<pool, creating, removing, scan, profiles, config, key_cache, now>>

\* the session that held the row has ended, or the statement was only
\* between two steps: the call goes on where it was
Resume(s) ==
    /\ sessions[s].stmt \notin {None, Some(Acquired)}
    /\ WaitsFor(s, Unwrap(sessions[s].stmt)) = {}
    /\ LET ss == sessions[s]
           st == Unwrap(sessions[s].stmt)
       IN  CASE st.call.op = "fetch" ->
                    FinishFetch(s, ss, st, StatementView(SessionView(ss), st.snap))
             [] st.call.op = "fetch_all" -> RunFetchAll(s, ss, st)
             [] st.call.op = "remove_all" -> RunRemoveAll(s, ss, st)
             [] st.call.op = "update" -> RunUpdate(s, ss, st)
    /\ UNCHANGED <<pool, creating, removing, scan, profiles, config, key_cache, caches,
                   checked_out, now>>

\* the sessions whose statement waits, and those they wait for
Blockers(s) ==
    IF sessions[s].stmt = None THEN {} ELSE WaitsFor(s, Unwrap(sessions[s].stmt))

RECURSIVE WaitChain(_, _)
WaitChain(S, n) ==
    IF n = 0 THEN S ELSE WaitChain(S \cup UNION {Blockers(t) : t \in S}, n - 1)

\* s waits for a session that, directly or not, waits for s
Deadlocked(s) == s \in WaitChain(Blockers(s), Cardinality(Sessions))

\* the error kinds of a statement the database cancels over its locks
LockErrors == {"Backend", "Busy"}

\* the database finds the deadlock and cancels the statement of one of the
\* sessions in it: its call returns the error, and its transaction is aborted
Deadlock(s, err) ==
    /\ sessions[s].stmt # None
    /\ Deadlocked(s)
    /\ sessions' = [sessions EXCEPT ![s] = Aborted(@)]
    /\ res' = Unwrap(sessions[s].stmt).call @@ [out |-> Err(err)]
    /\ UNCHANGED <<pool, creating, removing, scan, profiles, items, items_tags, config,
                   key_cache, caches, checked_out, now, serial, inserted>>

\* the pool after the session let go of its connection, if it had one
Released(ss) == IF ss.state = "Active" THEN checked_out - 1 ELSE checked_out

\* Backend::scan, step by step: a session of its own on the profile, made
\* active by perform_scan's acquire_key, and the Scan returned to the caller
ScanOpen(profile, kind, category, tag_filter, offset, limit) ==
    /\ scan.state = "None"
    /\ CanAcquire
    /\ LET session == DbSession_new(key_cache,
                          IF profile = None THEN DefaultProfile ELSE Unwrap(profile),
                          FALSE)
           a == acquire_key(caches, session)
       IN  /\ caches' = a.caches
           /\ checked_out' = checked_out + a.acquired
           /\ scan' = IF a.ok
                      THEN [NoScan EXCEPT !.state = "Open", !.sess = a.sess,
                                !.args = [profile |-> profile, kind |-> kind,
                                          category |-> category,
                                          tag_filter |-> tag_filter,
                                          offset |-> offset, limit |-> limit]]
                      ELSE NoScan
           /\ res' = [op |-> "scan_open", profile |-> profile,
                      out |-> IF a.ok THEN Ok(None) ELSE Err(a.err)]
    /\ UNCHANGED <<pool, creating, removing, profiles, items, items_tags, config,
                   key_cache, sessions, now, serial, inserted>>

\* the poll gave r: the Scan goes on or ends, and a stream that has gone has
\* given its connection back
Polled(r, rows, fault) ==
    /\ scan' = [r.scan EXCEPT !.cursor = IF scan.started \/ scan.state # "Open"
                                         THEN @ ELSE rows]
    /\ checked_out' = IF r.scan.sess.state = "Active" THEN checked_out
                      ELSE Released(scan.sess)
    /\ caches' = LiveCachesOf(caches, sessions, key_cache, r.scan)
    /\ res' = [op |-> "fetch_next", fault |-> fault, out |-> r.out]

\* Scan::fetch_next: the caller asks the Scan for its next batch
ScanNext(fault) ==
    /\ scan.state \in {"Open", "Done", "Failed"}
    /\ \E rows \in stream_rows(scan, SessionView(scan.sess)) :
            Polled(fetch_next(scan, rows, fault), rows, fault)
    /\ UNCHANGED <<pool, creating, removing, profiles, items, items_tags, config,
                   key_cache, sessions, now, serial, inserted>>

\* the caller drops the Scan, or its task is cancelled: the stream goes, and
\* with it the session and its connection
ScanDrop ==
    /\ scan.state \in {"Open", "Done", "Failed"}
    /\ scan' = NoScan
    /\ checked_out' = Released(scan.sess)
    /\ res' = [op |-> "scan_drop", open |-> scan.state = "Open",
               yielded |-> Len(scan.yielded)]
    /\ caches' = LiveCachesOf(caches, sessions, key_cache, NoScan)
    /\ UNCHANGED <<pool, creating, removing, profiles, items, items_tags, config,
                   key_cache, sessions, now, serial, inserted>>

\* acquire_key of the first operation of a Pending session, step by step.
\* make_active takes a connection (and begins the transaction of a session
\* that has one) and resolve_profile_key asks the KeyCache: a hit makes the
\* session Active; after a miss the task waits for its query
AcquireKeyLookup(s) ==
    /\ sessions[s].state = "Pending"
    /\ CanAcquire
    /\ LET hit == get_profile(caches[sessions[s].cache], sessions[s].profile)
       IN  IF pool # "Open"
           THEN /\ res' = [op |-> "acquire", session |-> s, out |-> Err("Backend")]
                /\ UNCHANGED <<sessions, checked_out>>
           ELSE /\ sessions' = [sessions EXCEPT ![s] =
                       IF hit = None
                       THEN [@ EXCEPT !.state = "Resolving",
                                      !.began = Began(sessions[s])]
                       ELSE [@ EXCEPT !.state = "Active",
                                      !.profile_id = Unwrap(hit).pid,
                                      !.key = Unwrap(hit).key,
                                      !.began = Began(sessions[s])]]
                /\ checked_out' = checked_out + 1
                /\ res' = [op |-> "get_profile", session |-> s, hit |-> hit # None]
    /\ UNCHANGED <<pool, creating, removing, scan, profiles, items, items_tags, config,
                   key_cache, caches, now, serial, inserted>>

\* the rest of resolve_profile_key after the miss: the query, load_key and
\* add_profile.  On an error the connection goes back and the session stays
\* Pending
AcquireKeyLoad(s) ==
    /\ sessions[s].state = "Resolving"
    /\ LET ss == sessions[s]
           r == resolve_profile_load(caches, ss.cache, ss.profile)
       IN  /\ caches' = r.caches
           /\ sessions' = [sessions EXCEPT ![s] =
                  IF r.ok
                  THEN [@ EXCEPT !.state = "Active", !.profile_id = r.pid, !.key = r.key]
                  ELSE [@ EXCEPT !.state = "Pending", !.began = None]]
           /\ checked_out' = IF r.ok THEN checked_out ELSE checked_out - 1
           /\ res' = [op |-> "load_profile_key", session |-> s,
                      cached |-> get_profile(caches[ss.cache], ss.profile) # None,
                      out |-> IF r.ok THEN Ok(None) ELSE Err(r.err)]
    /\ UNCHANGED <<pool, creating, removing, scan, profiles, items, items_tags, config,
                   key_cache, now, serial, inserted>>

\* DbSession::close: what is committed when the session ends.  An open
\* transaction is committed when asked to, and rolled back otherwise
DbSession_close(ss, commit) ==
    IF ss.state = "Active" /\ ss.transaction /\ commit
    THEN SessionView(ss)
    ELSE Rollback(Committed, SessionView(ss))

\* a close that commits whatever it is asked
close_AlwaysCommit(ss, commit) == DbSession_close(ss, TRUE)

\* QueryBackend::close(commit)
close(ss, commit) == DbSession_close(ss, commit)

Close(s, commit) ==
    /\ sessions[s].state \in {"Pending", "Active"}
    /\ sessions[s].stmt = None
    /\ LET db == close(sessions[s], commit)
       IN  /\ items' = db.items
           /\ items_tags' = db.items_tags
    /\ checked_out' = Released(sessions[s])
    /\ sessions' = [sessions EXCEPT ![s] = NoSession]
    /\ caches' = LiveCaches(caches, sessions', key_cache)
    /\ res' = [op |-> "close", session |-> s, commit |-> commit, out |-> Ok(None)]
    /\ UNCHANGED <<pool, creating, removing, scan, profiles, config, key_cache, now,
                   serial, inserted>>

\* a session dropped without close: its transaction rolls back and its
\* connection returns to the pool
Drop(s) ==
    /\ sessions[s].state \in {"Pending", "Active"}
    /\ sessions[s].stmt = None
    /\ LET db == Rollback(Committed, SessionView(sessions[s]))
       IN  /\ items' = db.items
           /\ items_tags' = db.items_tags
    /\ checked_out' = Released(sessions[s])
    /\ sessions' = [sessions EXCEPT ![s] = NoSession]
    /\ caches' = LiveCaches(caches, sessions', key_cache)
    /\ res' = [op |-> "drop", session |-> s]
    /\ UNCHANGED <<pool, creating, removing, scan, profiles, config, key_cache, now,
                   serial, inserted>>

\* the database clock advances
Tick ==
    /\ now < MaxTime
    /\ now' = now + 1
    /\ res' = [op |-> "tick"]
    /\ UNCHANGED <<pool, creating, removing, scan, profiles, items, items_tags, config,
                   key_cache, caches, sessions, checked_out, serial, inserted>>

(***************************************************************************)
(* Backend::create_profile and Backend::rekey_backend.                     *)
(***************************************************************************)
\* a name that no other call produces
RandomNames == <<"r1", "r2", "r3", "r4", "r5", "r6", "r7", "r8">>
random_profile_name(ser) == RandomNames[ser.profile]

\* a create_profile that puts the new key in the cache whatever the INSERT did
create_profile_CacheAlways(name, profs, cache, ser) ==
    LET key == ser.key
        pid == IF \E p \in profs : p.name = name THEN None ELSE Some(ser.profile)
    IN  IF pid # None
        THEN [out |-> Ok(name),
              profiles |-> profs \cup
                  {[id |-> Unwrap(pid), name |-> name,
                    store_key |-> StoreKey_to_string(key)]},
              cache |-> add_profile(cache, name, Unwrap(pid), key),
              serial |-> [ser EXCEPT !.profile = @ + 1, !.key = @ + 1]]
        ELSE [out |-> Err("Duplicate"), profiles |-> profs,
              cache |-> add_profile(cache, name, ser.profile, key), serial |-> ser]

\* INSERT INTO profiles ... ON CONFLICT DO NOTHING RETURNING id, then add_profile
\* (the cache as add_profile leaves it when nothing runs between the two)
create_profile(name, profs, cache, ser) ==
    LET key == ser.key
        enc_key == StoreKey_to_string(key)
        pid == IF \E p \in profs : p.name = name THEN None ELSE Some(ser.profile)
    IN  IF pid # None
        THEN [out |-> Ok(name),
              profiles |-> profs \cup
                  {[id |-> Unwrap(pid), name |-> name, store_key |-> enc_key]},
              cache |-> add_profile(cache, name, Unwrap(pid), key),
              serial |-> [ser EXCEPT !.profile = @ + 1, !.key = @ + 1]]
        ELSE [out |-> Err("Duplicate"), profiles |-> profs, cache |-> cache,
              serial |-> ser]

\* Backend::create_profile up to the answer of its INSERT, on a connection of
\* the pool.  A conflict ends the call with Duplicate; with a new id the call
\* goes on, holding its connection, to CreateProfileAdd: other tasks run in
\* between and find the row in profiles while the KeyCache has no entry yet
CreateProfile(name) ==
    /\ serial.profile <= MaxProfileId
    /\ CanAcquire
    /\ LET pname == IF name = None THEN random_profile_name(serial) ELSE Unwrap(name)
           r == create_profile(pname, profiles, caches[key_cache], serial)
       IN  IF pool # "Open"
           THEN /\ res' = [op |-> "create_profile", name |-> name,
                           out |-> Err("Backend")]
                /\ UNCHANGED <<profiles, caches, serial, creating, removing,
                               checked_out>>
           ELSE IF ~r.out.ok
           THEN /\ caches' = [caches EXCEPT ![key_cache] = r.cache]
                /\ res' = [op |-> "create_profile", name |-> name, out |-> r.out]
                /\ UNCHANGED <<profiles, serial, creating, removing, checked_out>>
           ELSE /\ profiles' = r.profiles
                /\ serial' = r.serial
                /\ creating' = creating \cup
                       {[arg |-> name, name |-> pname, pid |-> serial.profile,
                         key |-> serial.key]}
                /\ checked_out' = checked_out + 1
                /\ res' = [op |-> "create_profile_insert", name |-> name]
                /\ UNCHANGED caches
    /\ UNCHANGED <<pool, removing, scan, items, items_tags, config, key_cache, sessions,
                   now, inserted>>

\* the rest of a create_profile whose INSERT gave an id: add_profile on the
\* store's KeyCache, the connection back to the pool, and the name returned
CreateProfileAdd(t) ==
    /\ t \in creating
    /\ creating' = creating \ {t}
    /\ caches' = [caches EXCEPT ![key_cache] = add_profile(@, t.name, t.pid, t.key)]
    /\ checked_out' = checked_out - 1
    /\ res' = [op |-> "create_profile", name |-> t.arg, out |-> Ok(t.name)]
    /\ UNCHANGED <<pool, removing, scan, profiles, items, items_tags, config, key_cache,
                   sessions, now, serial, inserted>>

\* what the foreign key of items.profile_id does when a profile that has
\* items is deleted.  The schema decides, and the schema is not part of this
\* source: the items go with the profile, or the DELETE is refused
OnDelete == {"cascade", "restrict"}

\* DELETE FROM profiles WHERE name=$1 on the tables db = [profiles, items,
\* items_tags]: whether a row went, and the rows left
remove_profile(name, db, on_delete) ==
    LET gone == {p.id : p \in {q \in db.profiles : q.name = name}}
        children == {i.id : i \in {j \in db.items : j.profile_id \in gone}}
    IN  IF children # {} /\ on_delete = "restrict"
        THEN [out |-> Err("Backend"), db |-> db]
        ELSE [out |-> Ok(gone # {}),
              db |-> [profiles |-> {p \in db.profiles : p.name # name},
                      items |-> {i \in db.items : i.id \notin children},
                      items_tags |-> {it \in db.items_tags :
                                         it.item_id \notin children}]]

\* the open transactions that hold a row of the profile: one they wrote or
\* deleted, or one they locked (an inserted row holds the row of its profile
\* whether it is there still or not)
HoldsProfile(ss, name) ==
    \E p \in profiles :
        /\ p.name = name
        /\ \/ \E i \in ss.ins : i.profile_id = p.id
           \/ \E key \in ss.dead : key[1] = p.id
           \/ \E i \in items : i.profile_id = p.id /\ i.id \in ss.del \cup ss.locks

\* the DELETE of a remove_profile has the rows of the profile to itself
ProfileFree(name) == ~\E t \in Sessions : HoldsProfile(sessions[t], name)

\* the DELETE of remove_profile(name) on the tables as they are
RunRemoveProfile(name, on_delete) ==
    LET r == remove_profile(name, [profiles |-> profiles, items |-> items,
                                   items_tags |-> items_tags], on_delete)
    IN  /\ profiles' = r.db.profiles
        /\ items' = r.db.items
        /\ items_tags' = r.db.items_tags
        /\ res' = [op |-> "remove_profile", name |-> name,
                   on_delete |-> on_delete, out |-> r.out]

\* Backend::remove_profile.  The KeyCache is not touched.  The call takes a
\* connection of the pool, which a closed pool refuses.  The DELETE runs
\* whether the profile has items or not; while open transactions hold rows of
\* the profile it waits for them, the call keeping its connection, and ends
\* in RemoveProfileDelete
RemoveProfile(name, on_delete) ==
    /\ CanAcquire
    /\ IF pool # "Open"
       THEN /\ res' = [op |-> "remove_profile", name |-> name,
                       out |-> Err("Backend")]
            /\ UNCHANGED <<profiles, items, items_tags, removing, checked_out>>
       ELSE IF ProfileFree(name)
       THEN /\ RunRemoveProfile(name, on_delete)
            /\ UNCHANGED <<removing, checked_out>>
       ELSE /\ removing' = removing (+) SetToBag({name})
            /\ checked_out' = checked_out + 1
            /\ res' = [op |-> "remove_profile_wait", name |-> name]
            /\ UNCHANGED <<profiles, items, items_tags>>
    /\ UNCHANGED <<pool, creating, scan, config, key_cache, caches, sessions, now,
                   serial, inserted>>

\* the rest of a remove_profile that waited: the transactions that held rows
\* of the profile have ended, the DELETE runs and the connection returns to
\* the pool
RemoveProfileDelete(name, on_delete) ==
    /\ BagIn(name, removing)
    /\ ProfileFree(name)
    /\ RunRemoveProfile(name, on_delete)
    /\ removing' = removing (-) SetToBag({name})
    /\ checked_out' = checked_out - 1
    /\ UNCHANGED <<pool, creating, scan, config, key_cache, caches, sessions, now,
                   serial, inserted>>

\* UPDATE profiles SET store_key=$1 WHERE id=$2, for the ids of `pids`
UpdateStoreKeys(profs, upd_keys, pids) ==
    {IF p.id \in pids THEN [p EXCEPT !.store_key = upd_keys[p.id]] ELSE p : p \in profs}

\* a rekey_backend whose statements run on the pool, outside a transaction
rekey_backend_NoTxn(method, pass_key, fault, db, cache) ==
    LET w == WrapKeyMethod_resolve(method, pass_key)
        failed(err, txn) == [out |-> Err(err), db |-> txn, cache |-> None]
    IN  IF ~w.ok THEN [out |-> w, db |-> db, cache |-> None]
        ELSE IF pool # "Open" THEN [out |-> Err("Backend"), db |-> db, cache |-> None]
        ELSE LET loaded == [p \in db.profiles |-> load_key(cache, p.store_key)]
             IN  IF \E p \in db.profiles : ~loaded[p].ok
                 THEN failed("Encryption", db)
                 ELSE LET pids == {p.id : p \in db.profiles}
                          upd_keys == [pid \in pids |->
                              encode_store_key(
                                  loaded[CHOOSE p \in db.profiles : p.id = pid].val,
                                  w.val.wrap_key)]
                          last == CHOOSE pid \in pids : \A q \in pids : q <= pid
                          some == [db EXCEPT !.profiles =
                                      UpdateStoreKeys(@, upd_keys, pids \ {last})]
                          all == [db EXCEPT !.profiles =
                                      UpdateStoreKeys(@, upd_keys, pids)]
                          done == [all EXCEPT !.config =
                                      [@ EXCEPT !.wrap_key = w.val.wrap_key_ref]]
                      IN  IF fault = "profile" THEN failed("Backend", some)
                          ELSE IF fault = "config" THEN failed("Backend", all)
                          ELSE IF fault = "commit" THEN failed("Backend", done)
                          ELSE [out |-> Ok(None), db |-> done,
                                cache |-> Some(KeyCache_new(w.val.wrap_key))]

\* rekey_backend on the tables db = [profiles, config] with the store's cache.
\* `fault` is where the database lets the call down: "profile" (the last UPDATE
\* of a store key affects no row), "config" (the UPDATE of config affects no
\* row), "commit" (the commit fails), or "none".  The result has the tables
\* after the call and the new KeyCache (None: the store keeps its cache).
rekey_backend(method, pass_key, fault, db, cache) ==
    LET w == WrapKeyMethod_resolve(method, pass_key)
        failed(err, txn) == [out |-> Err(err), db |-> Rollback(db, txn), cache |-> None]
    IN  IF ~w.ok THEN [out |-> w, db |-> db, cache |-> None]
        ELSE IF pool # "Open" THEN [out |-> Err("Backend"), db |-> db, cache |-> None]
        ELSE LET loaded == [p \in db.profiles |-> load_key(cache, p.store_key)]
             IN  IF \E p \in db.profiles : ~loaded[p].ok
                 THEN failed("Encryption", db)
                 ELSE LET pids == {p.id : p \in db.profiles}
                          upd_keys == [pid \in pids |->
                              encode_store_key(
                                  loaded[CHOOSE p \in db.profiles : p.id = pid].val,
                                  w.val.wrap_key)]
                          last == CHOOSE pid \in pids : \A q \in pids : q <= pid
                          some == [db EXCEPT !.profiles =
                                      UpdateStoreKeys(@, upd_keys, pids \ {last})]
                          all == [db EXCEPT !.profiles =
                                      UpdateStoreKeys(@, upd_keys, pids)]
                          done == [all EXCEPT !.config =
                                      [@ EXCEPT !.wrap_key = w.val.wrap_key_ref]]
                      IN  IF fault = "profile" THEN failed("Backend", some)
                          ELSE IF fault = "config" THEN failed("Backend", all)
                          ELSE IF fault = "commit" THEN failed("Backend", done)
                          ELSE [out |-> Ok(None), db |-> done,
                                cache |-> Some(KeyCache_new(w.val.wrap_key))]

\* Backend::close: the pool is closed, and the call waits for the connections
\* that are out to come back.  From here on no acquire succeeds
BackendClose ==
    /\ pool = "Open"
    /\ pool' = IF checked_out = 0 THEN "Closed" ELSE "Closing"
    /\ res' = [op |-> "backend_close", done |-> checked_out = 0]
    /\ UNCHANGED <<creating, removing, scan, profiles, items, items_tags, config,
                   key_cache, caches, sessions, checked_out, now, serial, inserted>>

\* the last connection is back: Backend::close returns
BackendClosed ==
    /\ pool = "Closing"
    /\ checked_out = 0
    /\ pool' = "Closed"
    /\ res' = [op |-> "backend_close", done |-> TRUE]
    /\ UNCHANGED <<creating, removing, scan, profiles, items, items_tags, config,
                   key_cache, caches, sessions, checked_out, now, serial, inserted>>

\* the Arc of a new KeyCache
NewCache(cs) == CHOOSE c \in 1..(Cardinality(DOMAIN cs) + 1) : c \notin DOMAIN cs

RekeyBackend(method, pass_key, fault) ==
    /\ CanAcquire \/ ~WrapKeyMethod_resolve(method, pass_key).ok
    /\ creating = {}
    /\ removing = EmptyBag
    /\ pool # "Closing"
    /\ LET r == rekey_backend(method, pass_key, fault,
                              [profiles |-> profiles, config |-> config],
                              caches[key_cache])
           c == NewCache(caches)
       IN  /\ profiles' = r.db.profiles
           /\ config' = r.db.config
           /\ key_cache' = IF r.cache = None THEN key_cache ELSE c
           /\ caches' = IF r.cache = None THEN caches
                        ELSE LiveCaches(caches @@ (c :> Unwrap(r.cache)), sessions, c)
           /\ res' = [op |-> "rekey_backend", method |-> method, pass_key |-> pass_key,
                      fault |-> fault, out |-> r.out]
    /\ UNCHANGED <<pool, creating, removing, scan, items, items_tags, sessions,
                   checked_out, now, serial, inserted>>

(***************************************************************************)
(* The inputs the operations are called with.                              *)
(***************************************************************************)
CatA == <<99>>
NameA == <<110>>
NameB == <<111>>
Keys == {<<1, CatA, NameA>>, <<1, CatA, NameB>>, <<2, CatA, NameA>>}
KindCategories == {<<k[1], k[2]>> : k \in Keys}
Nonces == {0}
Expiries == {None, Some(1)}

\* a plaintext tag whose name and value are the delimiters ',' and ':' of the
\* tags column, and an encrypted tag
TagP == [plaintext |-> TRUE, name |-> <<44>>, value |-> <<58>>]
TagE == [plaintext |-> FALSE, name |-> <<116>>, value |-> <<58, 44>>]
\* (value, tags) of an Insert or Replace
Payloads == {<< Some(<<1>>), None >>, << Some(<<2>>), Some(<<TagE, TagP>>) >>}
TagFilters == {None, Some([op |-> "Eq", tag |-> TagE]),
               Some([op |-> "Not", child |-> [op |-> "Eq", tag |-> TagE]])}
Limits == {None, Some(1)}
Offsets == {None, Some(1)}

(***************************************************************************)
(* Spec: one session of the default profile and the database clock.        *)
(***************************************************************************)
Next ==
    \/ Session(1, None, FALSE)
    \/ \E kc \in KindCategories, tag_filter \in TagFilters :
            Count(1, kc[1], kc[2], tag_filter)
    \/ \E k \in Keys, for_update \in BOOLEAN : Fetch(1, k[1], k[2], k[3], for_update)
    \/ \E kc \in KindCategories, tag_filter \in TagFilters, limit \in Limits :
            FetchAll(1, kc[1], kc[2], tag_filter, limit, FALSE)
    \/ \E kc \in KindCategories, tag_filter \in TagFilters :
            RemoveAll(1, kc[1], kc[2], tag_filter)
    \/ \E operation \in {"Insert", "Replace"}, k \in Keys, p \in Payloads,
          expiry_ms \in Expiries, nonce \in Nonces :
            Update(1, operation, k[1], k[2], k[3], p[1], p[2], expiry_ms, nonce)
    \/ \E k \in Keys : Update(1, "Remove", k[1], k[2], k[3], None, None, None, 0)
    \/ \E commit \in BOOLEAN : Close(1, commit)
    \/ Tick

Spec == Init /\ [][Next]_vars

(***************************************************************************)
(* What the claims speak of, in terms of the plaintext the rows were       *)
(* inserted from.                                                          *)
(***************************************************************************)
ViewOf(s) == SessionView(sessions[s])

TagSet(tags) == IF tags = None THEN {} ELSE Range(Unwrap(tags))

\* row i is the entry (kind, category, name) = k of profile pid
HasKey(i, pid, k) ==
    /\ i.profile_id = pid
    /\ i.kind = k[1]
    /\ inserted[i.id].category = k[2]
    /\ inserted[i.id].name = k[3]

RowsOf(view, pid, k) == {i \in view.items : HasKey(i, pid, k)}

\* the expiry of row i is not later than the database's clock
Expired(i) == i.expiry # None /\ Unwrap(i.expiry) <= now

\* the expiry of row i is not later than the CURRENT_TIMESTAMP of a statement
\* that reads the view
ExpiredAt(view, i) == i.expiry # None /\ Unwrap(i.expiry) <= view.now

RECURSIVE PlainFilter(_, _)
PlainFilter(tags, f) ==
    IF f.op = "Eq" THEN f.tag \in tags ELSE ~PlainFilter(tags, f.child)

\* the rows of (kind, category) a query with the tag filter is to see
VisibleRows(view, pid, kind, category, tag_filter) ==
    {i \in view.items :
        /\ i.profile_id = pid /\ i.kind = kind
        /\ inserted[i.id].category = category
        /\ ~ExpiredAt(view, i)
        /\ tag_filter = None
            \/ PlainFilter(TagSet(inserted[i.id].tags), Unwrap(tag_filter))}

\* the result `out` is Some(Entry) with the value and the tag set of `e`
ReturnsEntry(out, k, value, tags) ==
    /\ out.ok
    /\ out.val # None
    /\ Unwrap(out.val).category = k[2]
    /\ Unwrap(out.val).name = k[3]
    /\ Unwrap(out.val).value = value
    /\ Range(Unwrap(out.val).tags) = TagSet(tags)

ResKey == <<res.kind, res.category, res.name>>

Ran(op) == res.op = op /\ sessions[res.session].state = "Active"

\* C1: a fetch by an active session of an entry that was inserted and has not
\* expired returns Some(Entry) with the category, name and value it was
\* inserted with and the same set of tags
C1_RoundTrip ==
    Ran("fetch") =>
        \A i \in RowsOf(ViewOf(res.session), sessions[res.session].profile_id, ResKey) :
            ~Expired(i) =>
                ReturnsEntry(res.out, ResKey, inserted[i.id].value, inserted[i.id].tags)

C1_Witness ==
    /\ Ran("fetch")
    /\ \E i \in RowsOf(ViewOf(res.session), sessions[res.session].profile_id, ResKey) :
            /\ ~Expired(i)
            /\ TagSet(inserted[i.id].tags) = {TagE, TagP}
            /\ i.id > 1

\* the step is an update(operation) by session s on key k
Updates(s, operation, k) ==
    /\ res'.op = "update"
    /\ res'.operation = operation
    /\ res'.session = s
    /\ <<res'.kind, res'.category, res'.name>> = k
    /\ sessions'[s].state = "Active"

\* the step leaves the tables and the session's own writes as they were
WritesNothing(s) ==
    /\ items' = items
    /\ items_tags' = items_tags
    /\ inserted' = inserted
    /\ sessions'[s].ins = sessions[s].ins
    /\ sessions'[s].ins_tags = sessions[s].ins_tags
    /\ sessions'[s].del = sessions[s].del

\* C2: Insert of a key that already has a row (expired or not) returns
\* Duplicate and changes no row of items or items_tags
C2_InsertDuplicate ==
    [][\A s \in Sessions, k \in Keys :
        (/\ Updates(s, "Insert", k)
         /\ RowsOf(ViewOf(s), sessions'[s].profile_id, k) # {})
        => (res'.out = Err("Duplicate") /\ WritesNothing(s))]_vars

C2_Witness ==
    /\ Ran("update")
    /\ res.operation = "Insert"
    /\ res.out = Err("Duplicate")
    /\ \E i \in RowsOf(ViewOf(res.session), sessions[res.session].profile_id, ResKey) :
            Expired(i)

\* after a Replace by session s of key k: one row for k, no tag row without
\* its item, and a fetch gives the new value and tags (while not expired)
Replaced(s, k) ==
    LET view == ViewOf(s)
        rows == RowsOf(view, sessions[s].profile_id, k)
        got == fetch(view, sessions[s], k[1], k[2], k[3], FALSE)
    IN  /\ Cardinality(rows) = 1
        /\ \A it \in view.items_tags : \E i \in view.items : i.id = it.item_id
        /\ \A i \in rows :
            /\ inserted[i.id].value = Unwrap(res.value)
            /\ inserted[i.id].tags = res.tags
            /\ IF Expired(i) THEN got = Ok(None)
               ELSE ReturnsEntry(got, k, Unwrap(res.value), res.tags)

(***************************************************************************)
(* SpecExpiry: a session, with or without a transaction, that inserts the  *)
(* entry NameB and reads, a second session that inserts the entry NameA    *)
(* and closes, both with and without an expiry, a Scan of the committed    *)
(* rows, and the database clock.                                           *)
(***************************************************************************)
ExpiryKeys == {<<1, CatA, NameA>>, <<1, CatA, NameB>>}

NextExpiry ==
    \/ \E transaction \in BOOLEAN : Session(1, None, transaction)
    \/ Session(2, None, FALSE)
    \/ \E p \in Payloads, expiry_ms \in Expiries :
            Update(1, "Insert", 1, CatA, NameB, p[1], p[2], expiry_ms, 0)
    \/ \E expiry_ms \in Expiries :
            Update(2, "Insert", 1, CatA, NameA, Some(<<1>>), None, expiry_ms, 0)
    \/ Close(2, TRUE)
    \/ \E tag_filter \in TagFilters : Count(1, 1, CatA, tag_filter)
    \/ \E k \in ExpiryKeys : Fetch(1, k[1], k[2], k[3], FALSE)
    \/ \E tag_filter \in TagFilters : FetchAll(1, 1, CatA, tag_filter, None, FALSE)
    \/ \E tag_filter \in TagFilters : ScanOpen(None, 1, CatA, tag_filter, None, None)
    \/ ScanNext(FALSE)
    \/ ScanDrop
    \/ Tick

SpecExpiry == Init /\ [][NextExpiry]_vars

\* the names of the entries a fetch_all or scan returned
NamesOf(out) == {out.val[n].name : n \in DOMAIN out.val}

\* the step is the first poll of the Scan, the one that runs its query
FirstPoll == scan.state = "Open" /\ ~scan.started /\ res'.op = "fetch_next"

\* the entries the Scan has yielded, batch after batch
ScanGave == Concat(scan.yielded)

\* the rows of (kind, category) that match the tag filter and whose expiry
\* is later than the database's clock, or that have none
UnexpiredRows(view, pid, kind, category, tag_filter) ==
    {i \in view.items :
        /\ i.profile_id = pid /\ i.kind = kind
        /\ inserted[i.id].category = category
        /\ ~Expired(i)
        /\ tag_filter = None
            \/ PlainFilter(TagSet(inserted[i.id].tags), Unwrap(tag_filter))}

UnexpiredNames(view, pid, kind, category, tag_filter) ==
    {inserted[i.id].name : i \in UnexpiredRows(view, pid, kind, category, tag_filter)}

\* the answer of the last count, fetch or fetch_all is that of the rows
\* whose expiry is later than the database's clock, or that have none
AnswersAtClock ==
    /\ Ran("count") =>
            res.out = Ok(Cardinality(UnexpiredRows(ViewOf(res.session),
                            sessions[res.session].profile_id, res.kind, res.category,
                            res.tag_filter)))
    /\ Ran("fetch") =>
            /\ (\A i \in RowsOf(ViewOf(res.session), sessions[res.session].profile_id,
                               ResKey) : Expired(i))
                => res.out = Ok(None)
            /\ (\E i \in RowsOf(ViewOf(res.session), sessions[res.session].profile_id,
                               ResKey) : ~Expired(i))
                => res.out.ok /\ res.out.val # None
    /\ Ran("fetch_all") =>
            /\ res.out.ok
            /\ NamesOf(res.out) = UnexpiredNames(ViewOf(res.session),
                                      sessions[res.session].profile_id, res.kind,
                                      res.category, res.tag_filter)

\* the first poll of the Scan yields the committed rows whose expiry is later
\* than the database's clock, or that have none
ScanAnswersAtClock ==
    FirstPoll =>
        /\ res'.out.ok
        /\ {e.name : e \in Range(ScanGave')}
            = UnexpiredNames(Committed, 1, scan.args.kind, scan.args.category,
                             scan.args.tag_filter)

\* C5: an entry whose expiry is not later than the database's clock is
\* invisible to count, fetch, fetch_all and scan, for every tag filter, and
\* an entry with no expiry or a later one is visible.  A session in a
\* transaction breaks it once the clock has reached the expiry of a row it
\* reads: its statements judge the expiry at the time the transaction began
C5_ExpiredInvisible ==
    /\ []AnswersAtClock
    /\ [][ScanAnswersAtClock]_<<res, vars>>

\* what the code keeps of C5: the sessions opened without a transaction, and
\* the Scan, answer by the database's clock
C5_ExpiredInvisibleOutsideTransaction ==
    /\ []((res.op \in {"count", "fetch", "fetch_all"}
                /\ ~sessions[res.session].transaction) => AnswersAtClock)
    /\ [][ScanAnswersAtClock]_<<res, vars>>

\* a session in a transaction fetched the entry of another session whose
\* expiry, later than the time the transaction began, the clock has reached
C5_Witness ==
    /\ Ran("fetch")
    /\ res.out.ok /\ res.out.val # None
    /\ sessions[res.session].transaction
    /\ \E i \in items :
            /\ HasKey(i, 1, ResKey)
            /\ Expired(i)
            /\ Unwrap(i.expiry) > Unwrap(sessions[res.session].began)

\* a count with a negated tag filter, by a session without a transaction,
\* while one matching row has expired and another has not
C5_WitnessCount ==
    /\ Ran("count")
    /\ ~sessions[res.session].transaction
    /\ res.tag_filter # None
    /\ Unwrap(res.tag_filter).op = "Not"
    /\ res.out = Ok(1)
    /\ \E i \in items :
            /\ Expired(i)
            /\ i.kind = res.kind
            /\ inserted[i.id].category = res.category
            /\ TagE \notin TagSet(inserted[i.id].tags)

\* a session in a transaction fetched an entry that it had inserted and
\* whose expiry the clock has reached since
C5_WitnessTransaction ==
    /\ Ran("fetch")
    /\ res.out.ok /\ res.out.val # None
    /\ sessions[res.session].transaction
    /\ \E i \in sessions[res.session].ins : HasKey(i, 1, ResKey) /\ Expired(i)

\* a Scan gave one entry of a table of two, the other row having expired
C5_WitnessScan ==
    /\ res.op = "fetch_next"
    /\ res.out.ok
    /\ res.out.val # None
    /\ Len(ScanGave) = 1
    /\ \E i \in items : Expired(i) /\ i.kind = scan.args.kind
    /\ Cardinality(items) = 2

(***************************************************************************)
(* SpecTxn: two sessions, each opened with or without a transaction, that  *)
(* write, read, close and are dropped.                                     *)
(***************************************************************************)
TxnKeys == {<<1, CatA, NameA>>, <<1, CatA, NameB>>}

NextTxn ==
    \/ Session(1, None, TRUE)
    \/ \E transaction \in BOOLEAN : Session(2, None, transaction)
    \/ \E s \in Sessions, k \in TxnKeys : Fetch(s, k[1], k[2], k[3], TRUE)
    \/ \E s \in Sessions : Resume(s)
    \/ \E s \in Sessions, err \in LockErrors : Deadlock(s, err)
    \/ \E s \in Sessions, k \in TxnKeys :
            Update(s, "Insert", k[1], k[2], k[3], Some(<<1>>), None, None, 0)
    \/ \E s \in Sessions, k \in TxnKeys :
            Update(s, "Replace", k[1], k[2], k[3], Some(<<2>>), Some(<<TagE, TagP>>), None, 0)
    \/ \E s \in Sessions, k \in TxnKeys :
            Update(s, "Remove", k[1], k[2], k[3], None, None, None, 0)
    \/ \E s \in Sessions : RemoveAll(s, 1, CatA, None)
    \/ \E s \in Sessions, commit \in BOOLEAN : Close(s, commit)
    \/ \E s \in Sessions : Drop(s)

SpecTxn == Init /\ [][NextTxn]_vars

\* the row of key k is at hand for the DELETE of a Replace or Remove of
\* session s that now runs to its end: the transaction of s is not aborted,
\* the session sees the row, the statement saw it when it began if it has
\* waited since, and no other session holds it
AtHand(s, k) ==
    /\ ~sessions[s].aborted
    /\ \E i \in RowsOf(ViewOf(s), sessions'[s].profile_id, k) :
        /\ sessions[s].stmt \notin {None, Some(Acquired)}
            => i.id \in Unwrap(sessions[s].stmt).snap
        /\ \A t \in Sessions \ {s} : i.id \notin sessions[t].del \cup sessions[t].locks

\* the DELETE of the Replace of session s is done and its INSERT is to come
Deleted(s) ==
    /\ sessions[s].stmt \notin {None, Some(Acquired)}
    /\ Unwrap(sessions[s].stmt).phase = "insert"

\* C3 as stated: Replace of a key that has a row succeeds, whatever other
\* sessions do.  A Replace that waits for a transaction which replaces the
\* row and commits breaks it: it returns NotFound
C3_ReplaceAnyExisting ==
    [][\A s \in Sessions, k \in Keys :
        (/\ Updates(s, "Replace", k)
         /\ RowsOf(ViewOf(s), sessions'[s].profile_id, k) # {})
        => res'.out = Ok(None)]_vars

\* C3: Replace of a key that has a row succeeds when the row is at hand for
\* its DELETE (the session's transaction is not aborted, no other open
\* transaction holds the row, and no transaction has replaced it since the
\* DELETE began); after a Replace that succeeded the key has exactly one
\* row, and fetch returns the new value and the new tag set and nothing of
\* the old entry
C3_ReplaceExisting ==
    /\ [][\A s \in Sessions, k \in Keys :
            (Updates(s, "Replace", k) /\ (AtHand(s, k) \/ Deleted(s)))
            => res'.out = Ok(None)]_vars
    /\ []((Ran("update") /\ res.operation = "Replace" /\ res.out = Ok(None))
            => Replaced(res.session, ResKey))

\* a Replace in a transaction succeeded on a row that a transaction rolled
\* back since had replaced, while the other session is in a transaction
C3_Witness ==
    /\ Ran("update")
    /\ res.operation = "Replace"
    /\ res.out = Ok(None)
    /\ Len(inserted) = 3
    /\ inserted[2].name = res.name
    /\ \E i \in items : i.id = 1 /\ HasKey(i, 1, ResKey)
    /\ \E i \in sessions[res.session].ins : i.id = 3 /\ HasKey(i, 1, ResKey)
    /\ \E t \in Sessions \ {res.session} :
            sessions[t].state = "Active" /\ sessions[t].transaction

\* a Replace returned NotFound for a key that has a row: the row of another
\* session's Replace, committed while this one waited
C3_WitnessNotFound ==
    /\ Ran("update")
    /\ res.operation = "Replace"
    /\ res.out = Err("NotFound")
    /\ ~sessions[res.session].aborted
    /\ RowsOf(ViewOf(res.session), 1, ResKey) # {}

\* after a Remove by session s of key k: no row for k, and fetch returns None
Removed(s, k) ==
    /\ RowsOf(ViewOf(s), sessions[s].profile_id, k) = {}
    /\ fetch(ViewOf(s), sessions[s], k[1], k[2], k[3], FALSE) = Ok(None)

\* C4 as stated: Remove of a key that has a row succeeds and fetch then
\* returns None, and Remove of a key that has no row returns NotFound and
\* changes nothing, whatever other sessions do.  A Remove that waits for a
\* transaction which replaces the row and commits breaks it: it returns
\* NotFound, and the key has a row
C4_RemoveAnyExisting ==
    [][\A s \in Sessions, k \in Keys :
        Updates(s, "Remove", k) =>
            IF RowsOf(ViewOf(s), sessions'[s].profile_id, k) # {}
            THEN res'.out = Ok(None) /\ Removed(s, k)'
            ELSE res'.out = Err("NotFound") /\ WritesNothing(s)]_vars

\* C4: Remove of a key whose row is at hand for its DELETE (the session's
\* transaction is not aborted, no other open transaction holds the row, and
\* no transaction has replaced it since the DELETE began) succeeds and fetch
\* then returns None; Remove of a key that has no row for the session, in a
\* transaction that is not aborted, returns NotFound and changes nothing
C4_Remove ==
    [][\A s \in Sessions, k \in Keys :
        Updates(s, "Remove", k) =>
            /\ AtHand(s, k) => (res'.out = Ok(None) /\ Removed(s, k)')
            /\ (~sessions[s].aborted
                    /\ RowsOf(ViewOf(s), sessions'[s].profile_id, k) = {})
                => (res'.out = Err("NotFound") /\ WritesNothing(s))]_vars

\* a Remove in a transaction succeeded on a row that a transaction rolled
\* back since had replaced
C4_Witness ==
    /\ Ran("update")
    /\ res.operation = "Remove"
    /\ res.out = Ok(None)
    /\ Len(inserted) = 2
    /\ inserted[2].name = res.name
    /\ inserted[1].name = res.name
    /\ \A t \in Sessions : sessions[t].ins = {}
    /\ \A i \in items : i.id = 1 => i.id \in sessions[res.session].del

\* a Remove returned NotFound for a key that has a row: the row of another
\* session's Replace, committed while this one waited
C4_WitnessNotFound ==
    /\ Ran("update")
    /\ res.operation = "Remove"
    /\ res.out = Err("NotFound")
    /\ ~sessions[res.session].aborted
    /\ RowsOf(ViewOf(res.session), 1, ResKey) # {}


\* the step is a write (update or remove_all) of session s
Writes(s) == res'.op \in {"update", "remove_all"} /\ res'.session = s

\* the step ends session s without committing
Abandons(s) ==
    /\ res'.session = s
    /\ res'.op = "drop" \/ (res'.op = "close" /\ ~res'.commit)

\* the step is close(commit = TRUE) of session s
Commits(s) == res'.op = "close" /\ res'.session = s /\ res'.commit

\* C6: what a fresh session sees (the committed rows) is not changed by a
\* write of a session opened with transaction = true, nor by its
\* close(commit = false) or its drop; close(commit = true) makes all its
\* writes visible; and a session that ends gives its connection back
C6_TransactionalVisibility ==
    [][\A s \in Sessions :
        /\ (sessions[s].transaction /\ (Writes(s) \/ Abandons(s)))
            => (items' = items /\ items_tags' = items_tags)
        /\ (sessions[s].transaction /\ sessions[s].state = "Active" /\ Commits(s))
            => (/\ items' = SessionView(sessions[s]).items
                /\ items_tags' = SessionView(sessions[s]).items_tags)
        /\ (Abandons(s) \/ Commits(s))
            => (/\ sessions'[s] = NoSession
                /\ checked_out' = IF sessions[s].state = "Active"
                                  THEN checked_out - 1 ELSE checked_out)]_vars

\* a transactional session that had inserted and deleted rows was dropped, and
\* the other session, still open, sees none of it
C6_Witness ==
    /\ res.op = "drop"
    /\ sessions[res.session] = NoSession
    /\ serial.item = 3
    /\ Cardinality(items) = 1
    /\ \E t \in Sessions : sessions[t].state = "Active" /\ ~sessions[t].transaction
    /\ checked_out = 1

(***************************************************************************)
(* SpecStore: profiles are created and the store is rekeyed while sessions *)
(* of the default profile and of profile "p" insert and fetch.             *)
(***************************************************************************)
ProfileNames == {None, Some(DefaultProfile), Some("p")}
WrapMethods == {"raw", "kdf"}
PassKeys == {None, Some("p2")}
Faults == {"none", "profile", "config", "commit"}
StoreEntryKey == <<1, CatA, NameA>>

NextStore ==
    \/ \E name \in ProfileNames : CreateProfile(name)
    \/ \E t \in creating : CreateProfileAdd(t)
    \/ BackendClose
    \/ BackendClosed
    \/ \E method \in WrapMethods, pass_key \in PassKeys, fault \in Faults :
            RekeyBackend(method, pass_key, fault)
    \/ \E profile \in {None, Some("p")} : Session(1, profile, FALSE)
    \/ Update(1, "Insert", StoreEntryKey[1], StoreEntryKey[2], StoreEntryKey[3],
              Some(<<1>>), Some(<<TagE>>), None, 0)
    \/ Fetch(1, StoreEntryKey[1], StoreEntryKey[2], StoreEntryKey[3], FALSE)
    \/ Close(1, TRUE)

SpecStore == Init /\ [][NextStore]_vars

\* the store's KeyCache
StoreCache == caches[key_cache]

\* the step is a rekey_backend that failed, or one that succeeded
RekeyFailed == res'.op = "rekey_backend" /\ ~res'.out.ok
RekeyDone == res'.op = "rekey_backend" /\ res'.out.ok

\* C7: a rekey_backend that fails, at whichever step, leaves every row of
\* profiles (so every store_key) and config.wrap_key as they were, and the
\* store's KeyCache the same instance with the same wrap key and content;
\* the KeyCache is another instance only after a rekey that succeeded
C7_RekeyAllOrNothing ==
    [][/\ RekeyFailed =>
            /\ profiles' = profiles
            /\ config' = config
            /\ key_cache' = key_cache
            /\ caches'[key_cache'] = caches[key_cache]
       /\ key_cache' # key_cache => RekeyDone]_vars

\* the rekey failed at the update of config, after every store key had been
\* updated inside the transaction
C7_Witness ==
    /\ res.op = "rekey_backend"
    /\ res.fault = "config"
    /\ res.out = Err("Backend")
    /\ res.method = "raw"
    /\ StoreCache.wrap_key = InitWrap.wrap_key
    /\ \A p \in profiles : p.store_key.wrap = Some(InitWrap.wrap_key)

\* the rekey failed where it loads a profile's store key
C7_WitnessLoad ==
    /\ res.op = "rekey_backend"
    /\ res.out = Err("Encryption")

\* the ids of the profile a session names (none when there is no such profile)
ProfileIdOf(name) == {p.id : p \in {q \in profiles : q.name = name}}

\* the unwrapped StoreKey of each profile, by profile id
StoreKeys == {<<p.id, load_key(StoreCache, p.store_key)>> : p \in profiles}

\* C8: a rekey_backend that succeeds changes no row of items or items_tags
\* and no profile's unwrapped StoreKey; and every fetch, also by a session
\* opened after a rekey, of an entry that is stored and has not expired
\* returns it with the value and tags it was inserted with (while the pool
\* is open: after Backend::close no session gets a connection)
C8_RekeyPreservesData ==
    /\ [][RekeyDone =>
            /\ items' = items
            /\ items_tags' = items_tags
            /\ StoreKeys' = StoreKeys]_vars
    /\ []((res.op = "fetch" /\ pool = "Open") =>
            \A pid \in ProfileIdOf(sessions[res.session].profile) :
              \A i \in RowsOf(Committed, pid, ResKey) :
                ReturnsEntry(res.out, ResKey, inserted[i.id].value,
                             inserted[i.id].tags))

\* what of C8 the code does keep: the rows and the unwrapped keys
C8_RowsAndKeysKept ==
    [][RekeyDone =>
            /\ items' = items
            /\ items_tags' = items_tags
            /\ StoreKeys' = StoreKeys]_vars

\* a session opened after a rekey that succeeded fetches a stored entry
C8_Witness ==
    /\ res.op = "fetch"
    /\ sessions[res.session].cache = key_cache
    /\ key_cache # 1
    /\ RowsOf(Committed, 1, ResKey) # {}
    /\ sessions[res.session].profile = DefaultProfile

\* C9: every profiles.store_key is the profile's StoreKey wrapped under the
\* wrap key the store's KeyCache holds and config.wrap_key references, and
\* loading it gives the StoreKey the cache holds for the profile
C9_StoreKeysWrapped ==
    /\ config.wrap_key = [uri |-> StoreCache.wrap_key[1]]
    /\ \A p \in profiles :
        /\ load_key(StoreCache, p.store_key).ok
        /\ \A e \in StoreCache.profile_info :
                e.name = p.name => load_key(StoreCache, p.store_key) = Ok(e.key)

\* a profile was created and the store rekeyed
C9_Witness ==
    /\ Cardinality(profiles) = 2
    /\ res.op = "rekey_backend"

\* the name create_profile is to use
NameOf(name, ser) == IF name = None THEN random_profile_name(ser) ELSE Unwrap(name)

\* C10: create_profile of a name that profiles has returns Duplicate and
\* leaves profiles and the KeyCache as they were; create_profile of a new
\* name adds one row to profiles, of that name, and when it returns the name
\* the KeyCache holds the name with the row's id and the key of its
\* store_key, and the entries it had.  (On a closed pool the call fails in
\* its acquire, before the INSERT.)
C10_CreateProfile ==
    [][/\ res'.op = "create_profile_insert" =>
            LET name == NameOf(res'.name, serial)
            IN  /\ ~\E p \in profiles : p.name = name
                /\ Cardinality(profiles') = Cardinality(profiles) + 1
                /\ profiles \subseteq profiles'
                /\ \A p \in profiles' \ profiles : p.name = name
                /\ caches' = caches
       /\ (res'.op = "create_profile" /\ ~res'.out.ok /\ pool = "Open") =>
            /\ \E p \in profiles : p.name = NameOf(res'.name, serial)
            /\ res'.out = Err("Duplicate")
            /\ profiles' = profiles
            /\ caches' = caches
       /\ (res'.op = "create_profile" /\ res'.out.ok) =>
            /\ profiles' = profiles
            /\ \E p \in profiles :
                    /\ p.name = res'.out.val
                    /\ get_profile(caches'[key_cache'], p.name)
                        = Some([name |-> p.name, pid |-> p.id, key |-> p.store_key.key])
            /\ \A e \in StoreCache.profile_info :
                    e \in caches'[key_cache'].profile_info]_vars

\* create_profile("p") answered Duplicate
C10_Witness ==
    /\ res.op = "create_profile"
    /\ res.name = Some("p")
    /\ res.out = Err("Duplicate")

C10_WitnessNew ==
    /\ res.op = "create_profile"
    /\ res.name = None
    /\ res.out.ok
    /\ Cardinality(profiles) = 3

(***************************************************************************)
(* SpecIso: profile "p" is created, and sessions of the default profile    *)
(* and of "p" work on the same (kind, category, name).                     *)
(***************************************************************************)
IsoKey == <<1, CatA, NameA>>
IsoProfiles == {None, Some("p")}

NextIso ==
    \/ CreateProfile(Some("p"))
    \/ \E t \in creating : CreateProfileAdd(t)
    \/ Session(1, None, FALSE)
    \/ Session(2, Some("p"), FALSE)
    \/ \E s \in Sessions : Count(s, IsoKey[1], IsoKey[2], None)
    \/ \E s \in Sessions : Fetch(s, IsoKey[1], IsoKey[2], IsoKey[3], FALSE)
    \/ \E s \in Sessions : FetchAll(s, IsoKey[1], IsoKey[2], None, None, FALSE)
    \/ \E profile \in IsoProfiles :
            ScanOpen(profile, IsoKey[1], IsoKey[2], None, None, None)
    \/ ScanNext(FALSE)
    \/ ScanDrop
    \/ \E s \in Sessions : Resume(s)
    \/ \E s \in Sessions : RemoveAll(s, IsoKey[1], IsoKey[2], None)
    \/ \E s \in Sessions :
            Update(s, "Insert", IsoKey[1], IsoKey[2], IsoKey[3], Some(<<1>>), None, None, 0)
    \/ \E s \in Sessions :
            Update(s, "Replace", IsoKey[1], IsoKey[2], IsoKey[3], Some(<<2>>),
                   Some(<<TagE, TagP>>), None, 0)
    \/ \E s \in Sessions :
            Update(s, "Remove", IsoKey[1], IsoKey[2], IsoKey[3], None, None, None, 0)
    \/ \E s \in Sessions : Close(s, TRUE)

SpecIso == Init /\ [][NextIso]_vars

\* the step is an operation of QueryBackend on session s
OperationOf(s) ==
    /\ res'.op \in {"count", "fetch", "fetch_all", "remove_all", "update", "wait"}
    /\ res'.session = s

\* the values of the entries a fetch, fetch_all or scan returned
ValuesOf(entries) == {entries[n].value : n \in DOMAIN entries}

\* the values of the unexpired rows of (kind, category) of the profiles pids
VisibleValues(view, pids, kind, category) ==
    {inserted[i.id].value :
        i \in UNION {VisibleRows(view, pid, kind, category, None) : pid \in pids}}

\* C11: an operation on a session of profile P leaves every row of items (and
\* its tag rows) of another profile as it was, and what count, fetch,
\* fetch_all and scan answer is made of the rows of P alone, P's id being the
\* one the profiles table has for the session's profile name
C11_ProfileIsolation ==
    /\ [][\A s \in Sessions :
            OperationOf(s) =>
                LET pids == ProfileIdOf(sessions[s].profile)
                IN  /\ {i \in items' : i.profile_id \notin pids}
                        = {i \in items : i.profile_id \notin pids}
                    /\ {it \in items_tags' : \E i \in items' :
                            i.id = it.item_id /\ i.profile_id \notin pids}
                        = {it \in items_tags : \E i \in items :
                            i.id = it.item_id /\ i.profile_id \notin pids}]_vars
    /\ [](/\ Ran("count") =>
                res.out = Ok(Cardinality(VisibleValues(ViewOf(res.session),
                    ProfileIdOf(sessions[res.session].profile), res.kind, res.category)))
          /\ (Ran("fetch") /\ res.out.val # None) =>
                Unwrap(res.out.val).value \in VisibleValues(ViewOf(res.session),
                    ProfileIdOf(sessions[res.session].profile), res.kind, res.category)
          /\ Ran("fetch_all") =>
                ValuesOf(res.out.val) = VisibleValues(ViewOf(res.session),
                    ProfileIdOf(sessions[res.session].profile), res.kind, res.category)
         )
    /\ [][(FirstPoll /\ res'.out.ok) =>
            ValuesOf(ScanGave') = VisibleValues(Committed,
                ProfileIdOf(IF scan.args.profile = None THEN DefaultProfile
                            ELSE Unwrap(scan.args.profile)),
                scan.args.kind, scan.args.category)]_<<res, vars>>

\* a session of profile "p" removed its entry while the default profile has
\* an entry of the same kind, category and name, which stays
C11_Witness ==
    /\ Ran("remove_all")
    /\ res.out = Ok(1)
    /\ sessions[res.session].profile = "p"
    /\ \E i \in items : i.profile_id = 1
    /\ Len(inserted) = 2

(***************************************************************************)
(* SpecArgs: replace_arg_placeholders applied to every short text over     *)
(* '$', two digits and a letter, and to the text of the repository's test. *)
(***************************************************************************)
MaxArgLen == 4
MaxArgStart == 3
ArgChars == {"$", "0", "1", "a"}

TestText ==
    <<"T", "h", "i", "s", " ", "$", "$", " ", "i", "s", " ", "$", "1", "0", " ",
      "a", " ", "$", "$", " ", "s", "t", "r", "i", "n", "g", "!">>

TestResult ==
    <<"T", "h", "i", "s", " ", "$", "3", " ", "i", "s", " ", "$", "1", "2", " ",
      "a", " ", "$", "5", " ", "s", "t", "r", "i", "n", "g", "!">>

ArgTexts == {TestText} \cup UNION {[1..n -> ArgChars] : n \in 0..MaxArgLen}

InitArgs ==
    /\ profiles = {[id |-> 1, name |-> DefaultProfile,
                    store_key |-> encode_store_key(1, InitWrap.wrap_key)]}
    /\ items = {}
    /\ items_tags = {}
    /\ config = [wrap_key |-> InitWrap.wrap_key_ref]
    /\ key_cache = 1
    /\ caches = (1 :> add_profile(KeyCache_new(InitWrap.wrap_key), DefaultProfile, 1, 1))
    /\ sessions = [s \in Sessions |-> NoSession]
    /\ scan = NoScan
    /\ pool = "Open"
    /\ creating = {}
    /\ removing = EmptyBag
    /\ checked_out = 0
    /\ now = 0
    /\ serial = [item |-> 1, tag |-> 1, profile |-> 2, key |-> 2]
    /\ res \in {[op |-> "args", filter |-> t, start_index |-> n] :
                    t \in ArgTexts, n \in 1..MaxArgStart}
    /\ inserted = <<>>

ReplaceArgs ==
    /\ res.op = "args"
    /\ res' = [op |-> "replace_arg_placeholders", filter |-> res.filter,
               start_index |-> res.start_index,
               out |-> replace_arg_placeholders(res.filter, res.start_index)]
    /\ UNCHANGED <<pool, creating, removing, scan, profiles, items, items_tags, config,
                   key_cache, caches, sessions, checked_out, now, serial, inserted>>

NextArgs == ReplaceArgs

SpecArgs == InitArgs /\ [][NextArgs]_vars

\* the tokens of a text, left to right: [dollars] for `$$`, [number |-> N] for
\* `$N`, and [char] for any other character
RECURSIVE Tokens(_)
Tokens(text) ==
    IF text = <<>> THEN <<>>
    ELSE IF Len(text) >= 2 /\ text[1] = "$" /\ text[2] = "$"
    THEN <<[kind |-> "dollars"]>> \o Tokens(SubSeq(text, 3, Len(text)))
    ELSE IF Len(text) >= 2 /\ text[1] = "$" /\ IsDigit(text[2])
    THEN LET n == DigitRun(Tail(text))
         IN  <<[kind |-> "number", number |-> ParseDecimal(SubSeq(text, 2, n + 1))]>>
                \o Tokens(SubSeq(text, n + 2, Len(text)))
    ELSE <<[kind |-> "char", char |-> text[1]]>> \o Tokens(Tail(text))

\* how many of the first n tokens are placeholders
PlaceholdersBefore(toks, n) ==
    Cardinality({m \in 1..(n - 1) : toks[m].kind # "char"})

\* the text the j-th token is to become
Rewritten(toks, n, start) ==
    IF toks[n].kind = "dollars"
    THEN <<"$">> \o Decimal(start + PlaceholdersBefore(toks, n))
    ELSE IF toks[n].kind = "number"
    THEN <<"$">> \o Decimal(toks[n].number + start - 1)
    ELSE <<toks[n].char>>

\* C12: replace_arg_placeholders(s, start) is s with its j-th placeholder
\* token rewritten, `$$` as `$(start+j)` and `$N` as `$(N+start-1)`, and every
\* other character kept; the text of the test with start 3 gives the text the
\* test expects
C12_ReplaceArgPlaceholders ==
    res.op = "replace_arg_placeholders" =>
        LET toks == Tokens(res.filter)
        IN  /\ res.out = Concat([n \in DOMAIN toks |-> Rewritten(toks, n, res.start_index)])
            /\ (res.filter = TestText /\ res.start_index = 3) => res.out = TestResult

C12_Witness ==
    /\ res.op = "replace_arg_placeholders"
    /\ res.filter = TestText
    /\ res.start_index = 3
    /\ res.out = TestResult

C12_WitnessMixed ==
    /\ res.op = "replace_arg_placeholders"
    /\ res.filter = <<"$", "1", "$", "$">>
    /\ res.start_index = 2
    /\ res.out = <<"$", "2", "$", "3">>

(***************************************************************************)
(* SpecScan: a table of up to MaxScanRows entries of the default profile,  *)
(* a Scan opened on it, polled and dropped, and a session beside it.       *)
(***************************************************************************)
MaxScanRows == 65
ScanKey == <<1, CatA>>

\* the j-th entry of the table: its name and value
ScanName(j) == <<110, j>>
ScanValue(j) == <<j>>

\* the row INSERT_QUERY wrote for the j-th entry, under the store key of the
\* default profile
ScanItem(j) ==
    [id |-> j, profile_id |-> 1, kind |-> ScanKey[1],
     category |-> encrypt_entry_category(1, ScanKey[2]),
     name |-> encrypt_entry_name(1, ScanName(j)),
     value |-> encrypt_entry_value(1, 0, ScanValue(j)),
     expiry |-> None]

InitScan ==
    /\ profiles = {[id |-> 1, name |-> DefaultProfile,
                    store_key |-> encode_store_key(1, InitWrap.wrap_key)]}
    /\ items \in {{ScanItem(j) : j \in 1..n} : n \in 0..MaxScanRows}
    /\ items_tags = {}
    /\ config = [wrap_key |-> InitWrap.wrap_key_ref]
    /\ key_cache = 1
    /\ caches = (1 :> add_profile(KeyCache_new(InitWrap.wrap_key), DefaultProfile, 1, 1))
    /\ sessions = [s \in Sessions |-> NoSession]
    /\ scan = NoScan
    /\ pool = "Open"
    /\ creating = {}
    /\ removing = EmptyBag
    /\ checked_out = 0
    /\ now = 0
    /\ serial = [item |-> MaxScanRows + 1, tag |-> 1, profile |-> 2, key |-> 2]
    /\ res = [op |-> "init"]
    /\ inserted = <<>>

NextScan ==
    \/ \E profile \in {None, Some("p")} :
          ScanOpen(profile, ScanKey[1], ScanKey[2], None, None, None)
    \/ \E fault \in BOOLEAN : ScanNext(fault)
    \/ ScanDrop
    \/ Session(1, None, FALSE)
    \/ Count(1, ScanKey[1], ScanKey[2], None)
    \/ Close(1, TRUE)

SpecScan == InitScan /\ [][NextScan]_vars

\* the entries of the table in the order of their ids
ScanTable ==
    [j \in 1..Cardinality(items) |-> Entry_new(ScanKey[2], ScanName(j), ScanValue(j), <<>>)]

\* the entries of the table in the order the Scan's query gave its rows
CursorTable == ScanEntries(1, ScanKey[2], scan.cursor).val

IsPrefix(a, b) == Len(a) <= Len(b) /\ a = SubSeq(b, 1, Len(a))

\* C13: every batch a Scan has yielded is non-empty and of at most PAGE_SIZE
\* entries, every batch but the last of exactly PAGE_SIZE; the cursor gives
\* every row of the table once, in an order of the database's choosing, and
\* the batches together are the first rows of the cursor, decrypted and in
\* that order; a Scan that has not failed gives a short batch or None only
\* when the batches are all the rows of the cursor, and it has ended then
C13_ScanPaging ==
    LET bs == scan.yielded
        ended == res.op = "fetch_next" /\ res.out.ok /\ scan.state # "Failed"
                    /\ (res.out.val = None \/ Len(Unwrap(res.out.val)) < PAGE_SIZE)
    IN  /\ \A b \in DOMAIN bs : Len(bs[b]) \in 1..PAGE_SIZE
        /\ \A b \in DOMAIN bs : b < Len(bs) => Len(bs[b]) = PAGE_SIZE
        /\ scan.started =>
              /\ {scan.cursor[n].id : n \in DOMAIN scan.cursor} = {i.id : i \in items}
              /\ Len(scan.cursor) = Cardinality(items)
        /\ IsPrefix(Concat(bs), CursorTable)
        /\ (res.op = "fetch_next" /\ res.out.ok /\ res.out.val # None)
              => (bs # <<>> /\ Unwrap(res.out.val) = bs[Len(bs)])
        /\ ended => (scan.state = "Done" /\ Concat(bs) = CursorTable)

\* two full batches and then None, for a table of twice PAGE_SIZE rows
C13_Witness ==
    /\ Cardinality(items) = 2 * PAGE_SIZE
    /\ res.op = "fetch_next"
    /\ res.out = Ok(None)
    /\ Len(scan.yielded) = 2
    /\ Concat(scan.yielded) = ScanTable

\* a full batch and a batch of one
C13_WitnessShort ==
    /\ Cardinality(items) = PAGE_SIZE + 1
    /\ res.op = "fetch_next"
    /\ res.out = Ok(Some(<<ScanTable[PAGE_SIZE + 1]>>))
    /\ Len(scan.yielded) = 2

\* a cursor that gives the rows in another order than that of their ids:
\* the first batch begins with the entry of the last row
C13_WitnessOrder ==
    /\ Cardinality(items) = PAGE_SIZE + 1
    /\ res.op = "fetch_next"
    /\ Len(scan.yielded) = 1
    /\ scan.yielded[1][1] = ScanTable[PAGE_SIZE + 1]
    /\ scan.state = "Open"

\* no batch at all for an empty table
C13_WitnessEmpty ==
    /\ items = {}
    /\ res.op = "fetch_next"
    /\ res.out = Ok(None)
    /\ scan.yielded = <<>>

\* the connections the sessions and the Scan hold
HeldBy(ss) == IF ss.state = "Active" THEN 1 ELSE 0

HeldBySessions ==
    Cardinality({s \in Sessions : sessions[s].state = "Active"}) + HeldBy(scan.sess)

\* C14: a Scan holds one connection while it is open and none once it is
\* exhausted, has failed or was dropped: the connections checked out are then
\* those of the active sessions alone, so that a Pending session next to a
\* Scan that has gone finds a free connection in a pool of two or more
C14_ScanRelease ==
    /\ checked_out = HeldBySessions
    /\ checked_out <= PoolSize
    /\ scan.state = "Open" <=> HeldBy(scan.sess) = 1
    /\ (scan.state # "Open" /\ sessions[1].state = "Pending" /\ PoolSize >= 2)
          => (checked_out = 0 /\ CanRun(1))

\* a Scan dropped after its first batch, with more rows to come, next to a
\* Pending session
C14_Witness ==
    /\ res.op = "scan_drop"
    /\ res.open
    /\ res.yielded = 1
    /\ Cardinality(items) > PAGE_SIZE
    /\ sessions[1].state = "Pending"
    /\ checked_out = 0

\* a Scan that failed while the session held the other connection
C14_WitnessFailed ==
    /\ res.op = "fetch_next"
    /\ ~res.out.ok
    /\ scan.state = "Failed"
    /\ sessions[1].state = "Active"
    /\ checked_out = 1

\* the pool exhausted by an open Scan and an active session
C14_WitnessFull ==
    /\ scan.state = "Open"
    /\ sessions[1].state = "Active"
    /\ checked_out = PoolSize

\* the session is Pending on a profile that neither its KeyCache nor the
\* profiles table knows
UnknownProfile(s) ==
    /\ sessions[s].state = "Pending"
    /\ get_profile(caches[sessions[s].cache], sessions[s].profile) = None
    /\ ProfileIdOf(sessions[s].profile) = {}

\* the step leaves the KeyCaches and the database as they were and session s
\* Pending, with no connection more checked out
FailsClean(s) ==
    /\ ~res'.out.ok
    /\ caches' = caches
    /\ profiles' = profiles
    /\ items' = items
    /\ items_tags' = items_tags
    /\ checked_out' = checked_out
    /\ sessions'[s] = sessions[s]

\* C15: the first operation of a session whose profile is in neither the
\* KeyCache nor the profiles table fails with NotFound, adds nothing to the
\* KeyCache, writes nothing and leaves no connection checked out
C15_UnknownProfileNotFound ==
    [][\A s \in Sessions :
        (UnknownProfile(s) /\ OperationOf(s)) =>
            (res'.out = Err("NotFound") /\ FailsClean(s))]_vars

\* C15, what the code does keep: the operation fails and leaves the caches,
\* the database, the pool and the session as they were
C15_UnknownProfileFails ==
    [][\A s \in Sessions :
        (UnknownProfile(s) /\ OperationOf(s)) => FailsClean(s)]_vars

\* a count on a session of a profile nobody created
C15_Witness ==
    /\ res.op = "count"
    /\ res.out = Err("Backend")
    /\ sessions[res.session].state = "Pending"
    /\ sessions[res.session].profile = "p"
    /\ ProfileIdOf("p") = {}
    /\ get_profile(caches[key_cache], "p") = None

\* C16: Replace of a key that has no row succeeds and creates the entry: after
\* a Replace by an active session the key has a row (a Replace that fails
\* leaves the rows as they were, so a key without a row after it had none
\* before), and after one that succeeded a fetch returns the value and the
\* tags it was given
C16_ReplaceMissing ==
    (Ran("update") /\ res.operation = "Replace") =>
        /\ RowsOf(ViewOf(res.session), sessions[res.session].profile_id, ResKey) # {}
        /\ res.out.ok => Replaced(res.session, ResKey)

\* a Replace of a key without a row, in a table that holds another entry
C16_Witness ==
    /\ Ran("update")
    /\ res.operation = "Replace"
    /\ res.out = Err("NotFound")
    /\ RowsOf(ViewOf(res.session), sessions[res.session].profile_id, ResKey) = {}
    /\ items # {}

(***************************************************************************)
(* SpecValue: Insert and Replace with and without a value, on a session    *)
(* with or without a transaction.                                          *)
(***************************************************************************)
ValueKeys == {<<1, CatA, NameA>>, <<1, CatA, NameB>>}
Values == {None, Some(<<1>>)}

NextValue ==
    \/ \E transaction \in BOOLEAN : Session(1, None, transaction)
    \/ \E operation \in {"Insert", "Replace"}, k \in ValueKeys, value \in Values :
            Update(1, operation, k[1], k[2], k[3], value, None, None, 0)
    \/ \E k \in ValueKeys : Update(1, "Remove", k[1], k[2], k[3], None, None, None, 0)
    \/ \E k \in ValueKeys : Fetch(1, k[1], k[2], k[3], FALSE)
    \/ \E commit \in BOOLEAN : Close(1, commit)

SpecValue == Init /\ [][NextValue]_vars

\* the step is an Insert or Replace by session s that was given no value
UpdatesWithoutValue(s) ==
    /\ res'.op = "update"
    /\ res'.session = s
    /\ res'.operation \in {"Insert", "Replace"}
    /\ res'.value = None
    /\ sessions'[s].state = "Active"

\* C17: an Insert or Replace given no value returns an Input error (it does
\* not panic); that it leaves the tables and the session's uncommitted
\* writes as they were is C17_MissingValueWritesNothing
C17_MissingValue ==
    (Ran("update") /\ res.operation \in {"Insert", "Replace"} /\ res.value = None)
        => res.out = Err("Input")

\* C17, what the code does keep: nothing is written
C17_MissingValueWritesNothing ==
    [][\A s \in Sessions : UpdatesWithoutValue(s) => WritesNothing(s)]_vars

\* a Replace without a value of an entry the session's transaction inserted
C17_Witness ==
    /\ Ran("update")
    /\ res.operation = "Replace"
    /\ res.value = None
    /\ res.out = Err("Panic")
    /\ sessions[res.session].transaction
    /\ RowsOf(ViewOf(res.session), 1, ResKey) # {}

(***************************************************************************)
(* SpecProfile: profiles created and removed, the store rekeyed, and       *)
(* sessions reading on the default profile or on "p".                      *)
(***************************************************************************)
NextProfile ==
    \/ CreateProfile(Some("p"))
    \/ \E t \in creating : CreateProfileAdd(t)
    \/ \E name \in {"p", "q"}, on_delete \in OnDelete : RemoveProfile(name, on_delete)
    \/ \E name \in {"p", "q"}, on_delete \in OnDelete :
            RemoveProfileDelete(name, on_delete)
    \/ RekeyBackend("raw", Some("p2"), "none")
    \/ Session(1, None, FALSE)
    \/ \E transaction \in BOOLEAN : Session(2, Some("p"), transaction)
    \/ \E s \in Sessions :
            Fetch(s, StoreEntryKey[1], StoreEntryKey[2], StoreEntryKey[3], FALSE)
    \/ Update(2, "Insert", StoreEntryKey[1], StoreEntryKey[2], StoreEntryKey[3],
              Some(<<1>>), None, None, 0)
    \/ \E s \in Sessions : Close(s, TRUE)

SpecProfile == Init /\ [][NextProfile]_vars

\* C18: within one KeyCache instance a profile name that is mapped to a
\* (ProfileId, StoreKey) stays mapped to that pair, whatever the step
C18_KeyCacheStable ==
    [][\A c \in DOMAIN caches \cap DOMAIN caches' :
        \A e \in caches[c].profile_info :
            get_profile(caches'[c], e.name) = Some(e)]_vars

\* C18, what the code does keep: an entry of a KeyCache changes only when
\* create_profile adds the name again
C18_KeyCacheStableButCreate ==
    [][\A c \in DOMAIN caches \cap DOMAIN caches' :
        \A e \in caches[c].profile_info :
            \/ get_profile(caches'[c], e.name) = Some(e)
            \/ res'.op = "create_profile" /\ res'.name = Some(e.name)
                    /\ res'.out.ok]_vars

\* "p" created again after it was removed: the KeyCache that held ("p", 2, 2)
\* holds ("p", 3, 3)
C18_Witness ==
    /\ res.op = "create_profile"
    /\ res.out = Ok("p")
    /\ key_cache = 1
    /\ get_profile(caches[key_cache], "p") = Some([name |-> "p", pid |-> 3, key |-> 3])

(***************************************************************************)
(* SpecLoad: the store rekeyed, which empties the KeyCache, and two        *)
(* sessions on the default profile whose first operations resolve the key  *)
(* side by side.  A rekey_backend without a pass key fails in resolve,     *)
(* also while the sessions hold every connection of the pool.              *)
(***************************************************************************)
NextLoad ==
    \/ \E pass_key \in PassKeys : RekeyBackend("raw", pass_key, "none")
    \/ CreateProfile(Some("p"))
    \/ \E t \in creating : CreateProfileAdd(t)
    \/ \E s \in Sessions, profile \in {None, Some("p")} : Session(s, profile, FALSE)
    \/ \E s \in Sessions : AcquireKeyLookup(s)
    \/ \E s \in Sessions : AcquireKeyLoad(s)
    \/ \E s \in Sessions :
            Fetch(s, StoreEntryKey[1], StoreEntryKey[2], StoreEntryKey[3], FALSE)
    \/ \E s \in Sessions : Close(s, TRUE)

SpecLoad == Init /\ [][NextLoad]_vars

\* C19: of the sessions that miss the KeyCache on a profile of the profiles
\* table, one loads the key (load_key and add_profile, the profile not being
\* cached yet) and every one obtains it: none fails, and none loads what the
\* cache already holds
C19_SingleLoader ==
    (res.op = "load_profile_key" /\ ProfileIdOf(sessions[res.session].profile) # {})
        => (res.out.ok /\ ~res.cached)

\* C19, what the code does keep: a key is never loaded twice
C19_NoSecondLoad ==
    (res.op = "load_profile_key" /\ res.out.ok) => ~res.cached

\* two sessions that both missed the KeyCache of the rekeyed store, the first
\* of them failing in its query while the other still waits for its own
C19_Witness ==
    /\ res.op = "load_profile_key"
    /\ res.out = Err("Backend")
    /\ key_cache # 1
    /\ sessions[res.session].profile = DefaultProfile
    /\ \E s \in Sessions : sessions[s].state = "Resolving"
            /\ sessions[s].profile = DefaultProfile
            /\ sessions[s].cache = key_cache

\* C20: session() gives a Pending session, which like a closed one holds no
\* connection and no resolved (ProfileId, StoreKey); an Active session holds
\* one connection, whatever the number of its operations, and the pair its
\* KeyCache has for its profile; the connections checked out are those of the
\* Active sessions and never more than the pool has
C20_SessionDiscipline ==
    /\ checked_out = HeldBySessions
    /\ checked_out <= PoolSize
    /\ res.op = "session" => sessions[res.session].state = "Pending"
    /\ res.op \in {"close", "drop"} => sessions[res.session] = NoSession
    /\ \A s \in Sessions :
        IF sessions[s].state = "Active"
        THEN get_profile(caches[sessions[s].cache], sessions[s].profile)
                = Some([name |-> sessions[s].profile, pid |-> sessions[s].profile_id,
                        key |-> sessions[s].key])
        ELSE sessions[s].profile_id = None /\ sessions[s].key = None

\* C20, the steps: session() leaves the pool, the KeyCaches and the database
\* as they are; an operation of an Active session leaves the pool and the
\* session's (ProfileId, StoreKey) as they are; the end of an Active session
\* gives one connection back
C20_SessionSteps ==
    [][\A s \in Sessions :
        /\ (res'.op = "session" /\ res'.session = s) =>
                /\ checked_out' = checked_out
                /\ caches' = caches
                /\ <<profiles', items', items_tags', config'>>
                        = <<profiles, items, items_tags, config>>
        /\ (res'.session = s /\ sessions[s].state = "Active"
                /\ sessions'[s].state = "Active") =>
                /\ checked_out' = checked_out
                /\ sessions'[s].profile_id = sessions[s].profile_id
                /\ sessions'[s].key = sessions[s].key
        /\ (res'.session = s /\ sessions[s].state = "Active"
                /\ sessions'[s].state = "None") =>
                checked_out' = checked_out - 1]_vars

\* the second of two operations of an Active session in a transaction, while
\* the other session is Pending
C20_Witness ==
    /\ Ran("update")
    /\ res.out.ok
    /\ sessions[res.session].transaction
    /\ Cardinality(sessions[res.session].ins) = 2
    /\ checked_out = 1
    /\ \E s \in Sessions : sessions[s].state = "Pending"

\* both connections of the pool held by Active sessions
C20_WitnessFull ==
    /\ checked_out = PoolSize
    /\ \A s \in Sessions : sessions[s].state = "Active"


\* ---------------------------------------------------------------------
\* QueryPrepare::limit_query on the query text and its parameter list

\* the literal that limit_query hands to replace_arg_placeholders
LimitClause ==
    <<" ", "L", "I", "M", "I", "T", " ", "$", "$", " ",
      "O", "F", "F", "S", "E", "T", " ", "$", "$">>

\* limit_query with the pushes in the other order
limit_query_args_Swapped(query, args, offset, limit) ==
    IF offset # None \/ limit # None
    THEN [query |-> query \o replace_arg_placeholders(LimitClause, Len(args) + 1),
          args |-> args \o <<Some(IF offset = None THEN 0 ELSE Unwrap(offset))>>
                        \o <<limit>>]
    ELSE [query |-> query, args |-> args]

\* limit_query: the query String it returns and the QueryParams it leaves; a
\* parameter is Some(n) for an i64 and None for an Option<i64> that is None
limit_query_args(query, args, offset, limit) ==
    IF offset # None \/ limit # None
    THEN LET last_idx == Len(args) + 1
         IN  [query |-> query \o replace_arg_placeholders(LimitClause, last_idx),
              args |-> args \o <<limit>>
                            \o <<Some(IF offset = None THEN 0 ELSE Unwrap(offset))>>]
    ELSE [query |-> query, args |-> args]

MaxLimitArgs == 10
LimitValues == {None, Some(0), Some(1), Some(12)}

\* a query with n parameters already bound: "Q $1 $2 ... $n"
RECURSIVE BaseQuery(_)
BaseQuery(n) ==
    IF n = 0 THEN <<"Q">>
    ELSE BaseQuery(n - 1) \o <<" ">> \o PlaceholderText(placeholder(n))

BaseArgs(n) == [i \in 1..n |-> Some(100 + i)]

InitLimit ==
    /\ profiles = {[id |-> 1, name |-> DefaultProfile,
                    store_key |-> encode_store_key(1, InitWrap.wrap_key)]}
    /\ items = {}
    /\ items_tags = {}
    /\ config = [wrap_key |-> InitWrap.wrap_key_ref]
    /\ key_cache = 1
    /\ caches = (1 :> add_profile(KeyCache_new(InitWrap.wrap_key), DefaultProfile, 1, 1))
    /\ sessions = [s \in Sessions |-> NoSession]
    /\ scan = NoScan
    /\ pool = "Open"
    /\ creating = {}
    /\ removing = EmptyBag
    /\ checked_out = 0
    /\ now = 0
    /\ serial = [item |-> 1, tag |-> 1, profile |-> 2, key |-> 2]
    /\ res \in {[op |-> "limit_args", query |-> BaseQuery(n), args |-> BaseArgs(n),
                 offset |-> o, limit |-> l] :
                    n \in 0..MaxLimitArgs, o \in LimitValues, l \in LimitValues}
    /\ inserted = <<>>

LimitQuery ==
    /\ res.op = "limit_args"
    /\ res' = [op |-> "limit_query", query |-> res.query, args |-> res.args,
               offset |-> res.offset, limit |-> res.limit,
               out |-> limit_query_args(res.query, res.args, res.offset, res.limit)]
    /\ UNCHANGED <<pool, creating, removing, scan, profiles, items, items_tags, config,
                   key_cache, caches, sessions, checked_out, now, serial, inserted>>

NextLimit == LimitQuery

SpecLimit == InitLimit /\ [][NextLimit]_vars

\* the placeholder numbers of a text, left to right
PlaceholderNumbers(text) ==
    LET toks == Tokens(text)
    IN  SelectSeq([n \in DOMAIN toks |->
                      IF toks[n].kind = "number" THEN toks[n].number ELSE 0],
                  LAMBDA x : x # 0)

\* " LIMIT $a OFFSET $b"
LimitOffsetText(a, b) ==
    <<" ", "L", "I", "M", "I", "T", " ", "$">> \o Decimal(a)
        \o <<" ", "O", "F", "F", "S", "E", "T", " ", "$">> \o Decimal(b)

\* C21: limit_query with offset and limit both None returns the query and the
\* parameters unchanged; otherwise it appends the parameters limit and then
\* offset (0 when None) and the text " LIMIT $a OFFSET $b" with a the parameter
\* count before the call plus one and b = a + 1, so that $a binds the limit,
\* $b the offset, and the placeholders of the whole query are 1, 2, .. in order
C21_LimitQuery ==
    res.op = "limit_query" =>
        LET n == Len(res.args)
            out == res.out
        IN  IF res.offset = None /\ res.limit = None
            THEN out.query = res.query /\ out.args = res.args
            ELSE /\ Len(out.args) = n + 2
                 /\ SubSeq(out.args, 1, n) = res.args
                 /\ out.query = res.query \o LimitOffsetText(n + 1, n + 2)
                 /\ out.args[n + 1] = res.limit
                 /\ out.args[n + 2] =
                        Some(IF res.offset = None THEN 0 ELSE Unwrap(res.offset))
                 /\ PlaceholderNumbers(out.query) = [j \in 1..(n + 2) |-> j]

\* a limit without an offset after nine parameters: $10 and $11
C21_Witness ==
    /\ res.op = "limit_query"
    /\ Len(res.args) = 9
    /\ res.limit = Some(12)
    /\ res.offset = None
    /\ res.out.args[10] = Some(12)
    /\ res.out.args[11] = Some(0)
    /\ PlaceholderNumbers(res.out.query)[10] = 10

\* an offset without a limit: the limit parameter is None
C21_WitnessNoLimit ==
    /\ res.op = "limit_query"
    /\ res.limit = None
    /\ res.offset = Some(1)
    /\ Len(res.out.args) = Len(res.args) + 2
    /\ res.out.args[Len(res.args) + 1] = None

\* neither: nothing appended
C21_WitnessUnchanged ==
    /\ res.op = "limit_query"
    /\ res.limit = None
    /\ res.offset = None
    /\ Len(res.args) = 2
    /\ res.out.query = res.query


\* ---------------------------------------------------------------------
\* sessions that hold the KeyCache of before a rekey_backend

\* the session of the last operation holds a KeyCache that rekey_backend has
\* since replaced, and its profile has a row in profiles
HoldsOldCache(s) ==
    /\ sessions[s].state \in {"Pending", "Active"}
    /\ sessions[s].cache # key_cache
    /\ ProfileIdOf(sessions[s].profile) # {}

\* the KeyCache of session s unwraps the store_key of its profile's row
UnwrapsStoredKey(s) ==
    \A p \in profiles :
        p.name = sessions[s].profile => load_key(caches[sessions[s].cache], p.store_key).ok

\* C22: a session created before a rekey_backend that succeeded and used
\* after it resolves its profile's StoreKey and fetches: its fetch leaves it
\* Active and returns no error (a session the fetch leaves Pending is one
\* that had its profile to resolve and could not); the pool being open
C22_SessionAcrossRekey ==
    (res.op = "fetch" /\ pool = "Open" /\ HoldsOldCache(res.session)) =>
        /\ sessions[res.session].state = "Active"
        /\ res.out.ok

\* C22, what the code does keep: such a session whose KeyCache has its
\* profile cached still fetches, with the ProfileId and StoreKey cached
C22_CachedProfileFetches ==
    (res.op = "fetch" /\ pool = "Open" /\ HoldsOldCache(res.session)
        /\ get_profile(caches[sessions[res.session].cache],
                       sessions[res.session].profile) # None) =>
        /\ sessions[res.session].state = "Active"
        /\ res.out.ok

\* a session of the default profile, created after a first rekey_backend and
\* used after a second one: its KeyCache has no entry for the profile and not
\* the wrap key of the stored blob, and its fetch fails
C22_Witness ==
    /\ res.op = "fetch"
    /\ HoldsOldCache(res.session)
    /\ sessions[res.session].profile = DefaultProfile
    /\ sessions[res.session].state = "Pending"
    /\ get_profile(caches[sessions[res.session].cache], DefaultProfile) = None
    /\ ~UnwrapsStoredKey(res.session)
    /\ ~res.out.ok
    /\ res.out.err = "Backend"

\* a session of before the rekey that finds its profile cached and fetches
\* the stored entry, with a KeyCache that cannot unwrap the stored blob
C22_WitnessCached ==
    /\ res.op = "fetch"
    /\ HoldsOldCache(res.session)
    /\ sessions[res.session].state = "Active"
    /\ res.out.ok
    /\ res.out.val # None
    /\ ~UnwrapsStoredKey(res.session)


\* ---------------------------------------------------------------------
\* remove_profile and the sessions created on the profile afterwards

ProfileRows(name) == {p \in profiles : p.name = name}

\* profile `name` was removed: profiles has no row of the name, and KeyCache c
\* still maps it (an entry is added only for a row: by create_profile after
\* its INSERT, by resolve_profile_key after its SELECT)
RemovedProfile(c, name) ==
    /\ ProfileRows(name) = {}
    /\ get_profile(caches[c], name) # None

\* the step is the first operation of session s
FirstOperationOn(s) ==
    /\ res'.op = "fetch"
    /\ res'.session = s
    /\ sessions[s].state = "Pending"

\* C23, first half: remove_profile(name) returns true exactly when profiles
\* had a row of that name, and leaves no row of that name
\* the items of the profile of that name
ProfileItems(name) == {i \in items : \E p \in ProfileRows(name) : i.profile_id = p.id}

\* C23, remove_profile: it returns true exactly when profiles had a row of
\* the name, and the row is gone then, with the items of the profile; under
\* a schema that restricts the deletion of a profile with items it fails
\* with Backend and deletes nothing
C23_RemoveReturns ==
    [][res'.op = "remove_profile" =>
            IF res'.out.ok
            THEN /\ res'.out = Ok(ProfileRows(res'.name) # {})
                 /\ profiles' = profiles \ ProfileRows(res'.name)
                 /\ items' = items \ ProfileItems(res'.name)
                 /\ res'.on_delete = "restrict" => ProfileItems(res'.name) = {}
            ELSE /\ res'.out = Err("Backend")
                 /\ res'.on_delete = "restrict"
                 /\ ProfileItems(res'.name) # {}
                 /\ profiles' = profiles
                 /\ items' = items]_<<res, vars>>

\* C23: remove_profile(name) returns true exactly when profiles had a row of
\* that name, which it deletes; and once a profile is removed, the first
\* operation of a session on that profile fails with NotFound and leaves the
\* session without ProfileId and StoreKey
C23_RemovedProfileNotFound ==
    [][/\ (res'.op = "remove_profile" /\ res'.out.ok) =>
            /\ res'.out = Ok(ProfileRows(res'.name) # {})
            /\ profiles' = profiles \ ProfileRows(res'.name)
       /\ \A s \in Sessions :
            (FirstOperationOn(s) /\ RemovedProfile(sessions[s].cache, sessions[s].profile)) =>
                /\ res'.out = Err("NotFound")
                /\ sessions'[s].state = "Pending"]_<<res, vars>>

\* "p" was created and removed (remove_profile returned true and its row is
\* gone), and a session on "p" is Active with the ProfileId and StoreKey of
\* the removed profile after a fetch that returned no error
C23_Witness ==
    /\ res.op = "fetch"
    /\ res.out.ok
    /\ sessions[res.session].profile = "p"
    /\ sessions[res.session].state = "Active"
    /\ ProfileRows("p") = {}
    /\ sessions[res.session].profile_id \notin {q.id : q \in profiles}
    /\ get_profile(caches[sessions[res.session].cache], "p") # None

\* remove_profile returned true
C23_WitnessRemoved ==
    /\ res.op = "remove_profile"
    /\ res.out = Ok(TRUE)
    /\ ProfileRows(res.name) = {}

\* remove_profile of a profile with an item: the item went with the profile
C23_WitnessCascade ==
    /\ res.op = "remove_profile"
    /\ res.out = Ok(TRUE)
    /\ res.on_delete = "cascade"
    /\ Len(inserted) = 1
    /\ items = {}

\* remove_profile of a profile with an item under a restricting schema
C23_WitnessRestrict ==
    /\ res.op = "remove_profile"
    /\ res.out = Err("Backend")
    /\ ProfileItems(res.name) # {}

\* remove_profile of a name without a row returned false
C23_WitnessAbsent ==
    /\ res.op = "remove_profile"
    /\ res.name = "q"
    /\ res.out = Ok(FALSE)


\* ---------------------------------------------------------------------
\* one row per key, expired rows counted

\* the columns of the unique index of items
IndexKey(i) == <<i.profile_id, i.kind, i.category, i.name>>

\* the rows of key k that session s reads before the step, expired ones
ExpiredRows(s, k) ==
    {i \in RowsOf(ViewOf(s), sessions'[s].profile_id, k) : Expired(i)}

\* the rows of key k in items after the step
RowsAfter(s, k) ==
    {i \in items' :
        /\ i.profile_id = sessions'[s].profile_id
        /\ i.kind = k[1]
        /\ inserted'[i.id].category = k[2]
        /\ inserted'[i.id].name = k[3]}

\* C24: items never holds two rows with the same (profile_id, kind,
\* category, name), expired rows counted; on a key whose row has expired an
\* Insert returns Duplicate and writes nothing, a Remove succeeds and leaves
\* the key without a row, and a Replace succeeds and leaves the key with one
\* row, the new one
C24_OneRowPerKey ==
    /\ [](\A i, j \in items : IndexKey(i) = IndexKey(j) => i = j)
    /\ [][\A s \in Sessions, k \in Keys :
            /\ (Updates(s, "Insert", k) /\ ExpiredRows(s, k) # {}) =>
                    /\ res'.out = Err("Duplicate")
                    /\ WritesNothing(s)
            /\ (Updates(s, "Remove", k) /\ ExpiredRows(s, k) # {}) =>
                    /\ res'.out = Ok(None)
                    /\ RowsAfter(s, k) = {}
            /\ (Updates(s, "Replace", k) /\ ExpiredRows(s, k) # {}) =>
                    /\ res'.out = Ok(None)
                    /\ \E i \in items' :
                        /\ i.id = serial.item
                        /\ RowsAfter(s, k) = {i}
                        /\ i \notin items]_vars

\* an Insert on a key whose only row has expired, which fetch does not
\* return, came back with Duplicate and the row is still the only one
C24_Witness ==
    /\ Ran("update")
    /\ res.operation = "Insert"
    /\ res.out = Err("Duplicate")
    /\ Cardinality(RowsOf(Committed, 1, ResKey)) = 1
    /\ \A i \in RowsOf(Committed, 1, ResKey) : Expired(i)
    /\ fetch(Committed, sessions[res.session], res.kind, res.category, res.name,
             FALSE) = Ok(None)

\* a Replace put a second entry under a key: the row of the first is gone
C24_WitnessReplace ==
    /\ Ran("update")
    /\ res.operation = "Replace"
    /\ res.out = Ok(None)
    /\ Len(inserted) = 2
    /\ inserted[1].name = res.name /\ inserted[1].category = res.category
    /\ {i.id : i \in RowsOf(Committed, 1, ResKey)} = {2}
    /\ now > 0

====
